---- MODULE Spec2Model ----
(***************************************************************************)
(* Signal evaluation engine of my-quant-ai: the ten-point weekly buy       *)
(* checklist (stock_utils, stock_utils_hk, scanNasdaq100, main), the       *)
(* stop-loss batch (check_stop_loss), the MACD death-cross sell check      *)
(* (sellSingleStock) and the two-rule index buy / sell checks              *)
(* (check_index_buy, check_index_sell).                                    *)
(*                                                                         *)
(* Prices and volumes are integers; every derived value (moving average,   *)
(* EMA, percentage) is an exact rational [n, d] in lowest terms, so the    *)
(* model states what the code computes in exact arithmetic.  d = 0 encodes *)
(* the IEEE special values the code can produce: NaN (n = 0) and +/-inf    *)
(* (n = 1 / n = -1).                                                       *)
(***************************************************************************)
EXTENDS Integers, Sequences, FiniteSets, TLC

VARIABLES
    \* ---- weekly buy checklist ----
    pc,         \* position of the buy evaluation: "fetched" | "done"
    evaluator,  \* which evaluator ran: "none" | "check_buy_rules" | ...
    fetched,    \* what the series provider returned (never written again)
    df,         \* the DataFrame object the evaluator works on (mutated in place)
    result,     \* what the evaluator returned
    first_run,      \* the first evaluation's return value and frame, once a second ran
    \* ---- stop-loss batch ----
    slpc,               \* "loop" | "reported" | "aborted" | "crashed"
    records,            \* load_purchase_records()
    idx,                \* loop position in records (next record, 1-based)
    triggered_records,  \* list of analysis entries that triggered
    all_records_data,   \* dict (market, symbol) -> analysis entry
    failed_records,     \* list of failed "market symbol" labels
    calls,              \* ghost: per processed record, the price and the return value
    report,             \* the two lists generate_stop_loss_report renders
    \* ---- death-cross sell check ----
    sellpc,     \* "input" | "done" | "reported" | "aborted"
    selldf,     \* the DataFrame handed to / fetched by the sell check
    info_price, \* ticker.info's price (PyNone when absent, Raised when info fails)
    sellcall,   \* which function ran: "none" | "find" | "check"
    sellres,    \* its return value
    sell_lists, \* main's and generate_sell_report's lists for the symbol
    \* ---- index buy / sell checks ----
    ixpc,        \* set of checks already run on the world below
    ix_price,    \* get_current_stock_price(symbol) (PyNone on failure)
    monthly_df,  \* get_stock_data(interval="1mo") (PyNone on failure)
    weekly_df,   \* get_stock_data(interval="1wk") (PyNone on failure)
    buy_result,  \* check_index_buy_signal's return value
    sell_result, \* check_index_sell_signal's return value
    buy_report,  \* what generate_index_buy_report builds its prompt from
    sell_report, \* what generate_index_sell_report builds its prompt from
    \* ---- buy and scan pipelines (the main() of each script) ----
    bpc,            \* "loop" | "empty" | "aborted" | "reported" | "summary" | "error"
    pipeline,       \* which script runs
    watchlist,      \* the symbols it iterates, in order
    bidx,           \* loop position in watchlist (next symbol, 1-based)
    stocks_data,    \* dict key -> analysis data (buy pipelines)
    failed_stocks,  \* list of failed symbols
    worthy_stocks,  \* list of (symbol, rules_passed, data) (scan pipelines)
    evals,          \* ghost: per evaluated symbol, the symbol and what came back
    rendered,       \* the arguments generate_ai_report was called with, or PyNone
    emails,         \* the emails sent, in order
    \* ---- position store loading ----
    loadpc,      \* "file" | "loaded" | "empty" | "loop" | "raised"
    loader,      \* "load_purchase_records" | "load_index_holdings"
    store_file,  \* what is on disk at the store's path
    loaded,      \* what the loader returned
    \* ---- volume-price analysis ----
    volpc,           \* "input" | "done"
    volume_df,       \* the monthly DataFrame handed to analyze_volume_trend
    volume_analysis  \* the dict it returned

varsBuy   == <<pc, evaluator, fetched, df, result, first_run>>
varsStop  == <<slpc, records, idx, triggered_records, all_records_data,
               failed_records, calls, report>>
varsSell  == <<sellpc, selldf, info_price, sellcall, sellres, sell_lists>>
varsIndex == <<ixpc, ix_price, monthly_df, weekly_df, buy_result, sell_result,
               buy_report, sell_report>>
varsBatch == <<bpc, pipeline, watchlist, bidx, stocks_data, failed_stocks,
               worthy_stocks, evals, rendered, emails>>
varsLoad  == <<loadpc, loader, store_file, loaded>>
varsVolume == <<volpc, volume_df, volume_analysis>>
vars      == <<varsBuy, varsStop, varsSell, varsIndex, varsBatch, varsLoad,
               varsVolume>>

-----------------------------------------------------------------------------
(* Python / numpy values *)

PyNone == [kind |-> "None"]

\* a call that ended by raising an exception
Raised == [kind |-> "raised"]

\* the series provider failing (ticker.history raising)
FetchError == [kind |-> "FetchError"]

NaN    == [n |-> 0, d |-> 0]
PosInf == [n |-> 1, d |-> 0]
NegInf == [n |-> 0 - 1, d |-> 0]

Abs(x) == IF x < 0 THEN 0 - x ELSE x

RECURSIVE GCD(_, _)
GCD(a, b) == IF b = 0 THEN a ELSE GCD(b, a % b)

\* n / d in lowest terms, d > 0
Norm(n, d) ==
    LET g == GCD(Abs(n), d)
    IN  IF g = 0 THEN [n |-> 0, d |-> 1] ELSE [n |-> n \div g, d |-> d \div g]

R(x) == [n |-> x, d |-> 1]

IsNaN(a)    == a.d = 0 /\ a.n = 0
IsFinite(a) == a.d > 0
Sign(a)     == IF a.n > 0 THEN 1 ELSE IF a.n < 0 THEN 0 - 1 ELSE 0

\* float addition: finite + finite exact; inf + (-inf) = NaN
RAdd(a, b) ==
    IF IsNaN(a) \/ IsNaN(b) THEN NaN
    ELSE IF ~IsFinite(a) /\ ~IsFinite(b) THEN (IF a.n = b.n THEN a ELSE NaN)
    ELSE IF ~IsFinite(a) THEN a
    ELSE IF ~IsFinite(b) THEN b
    ELSE LET g == GCD(a.d, b.d)
         IN  Norm(a.n * (b.d \div g) + b.n * (a.d \div g), (a.d \div g) * b.d)

RNeg(a) == [n |-> 0 - a.n, d |-> a.d]

RSub(a, b) == RAdd(a, RNeg(b))

\* float multiplication: 0 * inf = NaN
RMul(a, b) ==
    IF IsNaN(a) \/ IsNaN(b) THEN NaN
    ELSE IF ~IsFinite(a) \/ ~IsFinite(b)
         THEN (IF Sign(a) * Sign(b) = 0 THEN NaN
               ELSE [n |-> Sign(a) * Sign(b), d |-> 0])
    ELSE LET g1 == GCD(Abs(a.n), b.d)
             g2 == GCD(Abs(b.n), a.d)
         IN  IF a.n = 0 \/ b.n = 0 THEN R(0)
             ELSE Norm((a.n \div g1) * (b.n \div g2), (a.d \div g2) * (b.d \div g1))

\* numpy float64 division: x / 0 = +/-inf, 0 / 0 = NaN, never raises
RDiv(a, b) ==
    IF IsNaN(a) \/ IsNaN(b) THEN NaN
    ELSE IF ~IsFinite(b) THEN (IF IsFinite(a) THEN R(0) ELSE NaN)
    ELSE IF b.n = 0 THEN [n |-> Sign(a), d |-> 0]
    ELSE IF ~IsFinite(a) THEN [n |-> Sign(a) * Sign(b), d |-> 0]
    ELSE RMul(a, IF b.n > 0 THEN [n |-> b.d, d |-> b.n]
                 ELSE [n |-> 0 - b.d, d |-> 0 - b.n])

\* a < b; every comparison with NaN is False
RLt(a, b) ==
    IF IsNaN(a) \/ IsNaN(b) THEN FALSE
    ELSE IF ~IsFinite(a) \/ ~IsFinite(b)
         THEN (IF ~IsFinite(a) /\ ~IsFinite(b) THEN a.n < b.n
               ELSE IF ~IsFinite(a) THEN a.n < 0
               ELSE b.n > 0)
    ELSE LET g == GCD(a.d, b.d)
         IN  a.n * (b.d \div g) < b.n * (a.d \div g)

RGt(a, b) == RLt(b, a)

REq(a, b) == ~IsNaN(a) /\ ~IsNaN(b) /\ a = b

RLe(a, b) == RLt(a, b) \/ REq(a, b)

RGe(a, b) == RLe(b, a)

-----------------------------------------------------------------------------
(* Python round(x, k): round half to even on the exact value *)

RECURSIVE Pow10(_)
Pow10(k) == IF k = 0 THEN 1 ELSE 10 * Pow10(k - 1)

\* <<floor(num * 10^k / den), remainder>> by long division, digit by digit
RECURSIVE ScaledDiv(_, _, _, _)
ScaledDiv(q, r, den, k) ==
    IF k = 0 THEN <<q, r>>
    ELSE ScaledDiv(q * 10 + ((r * 10) \div den), (r * 10) % den, den, k - 1)

Round(a, k) ==
    IF ~IsFinite(a) THEN a
    ELSE LET m  == Abs(a.n)
             qr == ScaledDiv(m \div a.d, m % a.d, a.d, k)
             q  == qr[1]
             r  == qr[2]
             up == IF 2 * r > a.d THEN q + 1
                   ELSE IF 2 * r = a.d THEN q + (q % 2)
                   ELSE q
         IN  Norm(Sign(a) * up, Pow10(k))

-----------------------------------------------------------------------------
(* Indicator library *)

Rows(d) == Len(d.Close)

RECURSIVE SumRange(_, _, _)
SumRange(xs, lo, hi) == IF lo > hi THEN 0 ELSE xs[hi] + SumRange(xs, lo, hi - 1)

RECURSIVE MaxRange(_, _, _)
MaxRange(xs, lo, hi) ==
    IF lo = hi THEN xs[lo]
    ELSE LET m == MaxRange(xs, lo, hi - 1) IN IF xs[hi] > m THEN xs[hi] ELSE m

RECURSIVE MinRange(_, _, _)
MinRange(xs, lo, hi) ==
    IF lo = hi THEN xs[lo]
    ELSE LET m == MinRange(xs, lo, hi - 1) IN IF xs[hi] < m THEN xs[hi] ELSE m

\* Series.rolling(window=w).mean(): NaN until w observations are in the window
RollingMean(xs, w) ==
    [i \in 1..Len(xs) |->
        IF i < w THEN NaN ELSE Norm(SumRange(xs, i - w + 1, i), w)]

\* Series.ewm(span=span, adjust=False).mean(), first i values:
\*   y[1] = x[1];  y[j] = (1 - alpha) * y[j-1] + alpha * x[j],  alpha = 2 / (span + 1)
RECURSIVE EwmUpTo(_, _, _)
EwmUpTo(xs, alpha, i) ==
    IF i = 0 THEN <<>>
    ELSE IF i = 1 THEN <<xs[1]>>
    ELSE LET prev == EwmUpTo(xs, alpha, i - 1)
         IN  \* (1 - alpha) * y[i-1] + alpha * x[i]
             Append(prev, RAdd(RMul([n |-> alpha.d - alpha.n, d |-> alpha.d],
                                    prev[i - 1]),
                               RMul(alpha, xs[i])))

\* Wilder's smoothing factor 1 / span instead of 2 / (span + 1)
EwmMutant(xs, span) == EwmUpTo(xs, Norm(1, span), Len(xs))

Ewm(xs, span) == EwmUpTo(xs, Norm(2, span + 1), Len(xs))

ToR(xs) == [i \in 1..Len(xs) |-> R(xs[i])]

\* a calculate_macd that smooths the signal column the frame already carries
calculate_macdMutant(d) ==
    LET exp1 == Ewm(ToR(d.Close), 12)
        exp2 == Ewm(ToR(d.Close), 26)
        dif  == [i \in 1..Rows(d) |-> RSub(exp1[i], exp2[i])]
        dea  == Ewm(IF "MACD_DEA" \in DOMAIN d THEN d.MACD_DEA ELSE dif, 9)
        macd == [i \in 1..Rows(d) |-> RMul(R(2), RSub(dif[i], dea[i]))]
    IN  [MACD_DIF |-> dif, MACD_DEA |-> dea, MACD |-> macd] @@ d

\* calculate_macd(df, fast=12, slow=26, signal=9): assigns three columns of df
calculate_macd(d) ==
    LET exp1 == Ewm(ToR(d.Close), 12)
        exp2 == Ewm(ToR(d.Close), 26)
        dif  == [i \in 1..Rows(d) |-> RSub(exp1[i], exp2[i])]
        dea  == Ewm(dif, 9)
        macd == [i \in 1..Rows(d) |-> RMul(R(2), RSub(dif[i], dea[i]))]
    IN  [MACD_DIF |-> dif, MACD_DEA |-> dea, MACD |-> macd] @@ d

\* df['10MA'], df['20MA'], df['30MA'] = rolling means of Close
AddWeeklyMAs(d) ==
    [ma10 |-> RollingMean(d.Close, 10),
     ma20 |-> RollingMean(d.Close, 20),
     ma30 |-> RollingMean(d.Close, 30)] @@ d

-----------------------------------------------------------------------------
(* Ten-point weekly buy checklist: stock_utils.check_buy_rules.             *)
(* Every rule reads the DataFrame d after the MA and MACD columns were      *)
(* added; n = len(df), row n is df.iloc[-1], row n-1 is df.iloc[-2].        *)

MinWeeks == 30

\* prev_ma30 = df.iloc[-2]['30MA'] if len(df) >= 2 and not isna(...) else None
PrevMa30(d) ==
    IF Rows(d) >= 2 /\ ~IsNaN(d.ma30[Rows(d) - 1]) THEN d.ma30[Rows(d) - 1]
    ELSE PyNone

Rule1(d) ==
    LET ma10 == d.ma10[Rows(d)]
        ma20 == d.ma20[Rows(d)]
    IN  IF ~IsNaN(ma10) /\ ~IsNaN(ma20) THEN RGt(ma10, ma20) ELSE FALSE

Rule2Mutant(d) ==
    LET ma20 == d.ma20[Rows(d)]
    IN  IF ~IsNaN(ma20) THEN RGe(R(d.Close[Rows(d)]), ma20) ELSE FALSE

Rule2(d) ==
    LET ma20 == d.ma20[Rows(d)]
    IN  IF ~IsNaN(ma20) THEN RGt(R(d.Close[Rows(d)]), ma20) ELSE FALSE

Rule3(d) ==
    LET ma30 == d.ma30[Rows(d)]
    IN  IF ~IsNaN(ma30) THEN RGt(R(d.Close[Rows(d)]), ma30) ELSE FALSE

\* a missing previous MA30 counted as a rising trend
Rule4Mutant(d) ==
    LET ma30      == d.ma30[Rows(d)]
        prev_ma30 == PrevMa30(d)
    IN  IF prev_ma30 = PyNone THEN ~IsNaN(ma30)
        ELSE IF ~IsNaN(ma30) /\ ~IsNaN(prev_ma30) THEN RGt(ma30, prev_ma30)
        ELSE FALSE

Rule4(d) ==
    LET ma30      == d.ma30[Rows(d)]
        prev_ma30 == PrevMa30(d)
    IN  IF prev_ma30 # PyNone /\ ~IsNaN(ma30) /\ ~IsNaN(prev_ma30)
        THEN RGt(ma30, prev_ma30)
        ELSE FALSE

\* volatility_pct = ((max_price - min_price) / min_price) * 100 over df.iloc[-6:]
VolatilityPct(d) ==
    LET n         == Rows(d)
        max_price == MaxRange(d.Close, n - 5, n)
        min_price == MinRange(d.Close, n - 5, n)
    IN  RMul(RDiv(R(max_price - min_price), R(min_price)), R(100))

Rule5(d) ==
    LET n == Rows(d)
    IN  IF n >= 6
        THEN (IF MaxRange(d.Close, n - 5, n) > 0
              THEN RLt(VolatilityPct(d), R(20))
              ELSE FALSE)
        ELSE FALSE

\* down_weeks['Volume'].values: volumes of the rows lo..hi with Close < Open, in order
RECURSIVE DownVolumes(_, _, _)
DownVolumes(d, lo, hi) ==
    IF lo > hi THEN <<>>
    ELSE LET rest == DownVolumes(d, lo, hi - 1)
         IN  IF d.Close[hi] < d.Open[hi] THEN Append(rest, d.Volume[hi]) ELSE rest

\* np.mean(volumes[lo-1:hi])
MeanRange(xs, lo, hi) ==
    IF lo > hi THEN NaN ELSE Norm(SumRange(xs, lo, hi), hi - lo + 1)

\* the split point rounded up: with an odd count the earlier half is the larger
DownVolumeShrinksMutant(d) ==
    LET n       == Rows(d)
        volumes == DownVolumes(d, n - 5, n)
        mid     == (Len(volumes) + 1) \div 2
        early_avg == MeanRange(volumes, 1, mid)
        late_avg  == MeanRange(volumes, mid + 1, Len(volumes))
    IN  IF Len(volumes) >= 2
        THEN (IF RGt(early_avg, R(0)) THEN RLt(late_avg, early_avg) ELSE FALSE)
        ELSE FALSE

\* the comparison of the two halves of the down-week volumes (lines 255-263)
DownVolumeShrinks(d) ==
    LET n       == Rows(d)
        volumes == DownVolumes(d, n - 5, n)
        mid     == Len(volumes) \div 2
        early_avg == MeanRange(volumes, 1, mid)
        late_avg  == MeanRange(volumes, mid + 1, Len(volumes))
    IN  IF Len(volumes) >= 2
        THEN (IF RGt(early_avg, R(0)) THEN RLt(late_avg, early_avg) ELSE FALSE)
        ELSE FALSE

Rule6Mutant(d, rule_5) ==
    IF Rows(d) >= 6 THEN DownVolumeShrinks(d) ELSE FALSE

Rule6(d, rule_5) ==
    IF Rows(d) >= 6 /\ rule_5 THEN DownVolumeShrinks(d) ELSE FALSE

Rule7(d) ==
    LET n == Rows(d)
    IN  IF n >= 2
        THEN (IF d.Close[n - 1] > 0
              THEN RGe(RMul(RDiv(R(d.Close[n] - d.Close[n - 1]), R(d.Close[n - 1])),
                            R(100)),
                       R(5))
              ELSE FALSE)
        ELSE FALSE

Rule8(d) ==
    LET n == Rows(d)
    IN  IF n >= 2 THEN d.Volume[n] > d.Volume[n - 1] ELSE FALSE

Rule9Mutant(d) ==
    LET dif == d.MACD_DIF[Rows(d)]
        dea == d.MACD_DEA[Rows(d)]
    IN  ~RLe(dif, dea)

Rule9(d) ==
    LET dif == d.MACD_DIF[Rows(d)]
        dea == d.MACD_DEA[Rows(d)]
    IN  IF ~IsNaN(dif) /\ ~IsNaN(dea) THEN RGt(dif, dea) ELSE FALSE

Rule10Mutant(d) ==
    LET n == Rows(d)
    IN  IF n >= 10 THEN d.Close[n] > MaxRange(d.Close, n - 9, n) ELSE FALSE

Rule10(d) ==
    LET n == Rows(d)
    IN  IF n >= 10 THEN d.Close[n] >= MaxRange(d.Close, n - 9, n) ELSE FALSE

NoneIfNaN(x) == IF IsNaN(x) THEN PyNone ELSE x

\* the indicator fields shared by every variant's result dict (lines 294-302)
Indicators(d) ==
    LET n == Rows(d)
    IN  [price       |-> Round(R(d.Close[n]), 2),
         ma10        |-> NoneIfNaN(Round(d.ma10[n], 2)),
         ma20        |-> NoneIfNaN(Round(d.ma20[n], 2)),
         ma30        |-> NoneIfNaN(Round(d.ma30[n], 2)),
         macd_dif    |-> NoneIfNaN(Round(d.MACD_DIF[n], 4)),
         macd_dea    |-> NoneIfNaN(Round(d.MACD_DEA[n], 4)),
         prev_close  |-> IF n >= 2 THEN Round(R(d.Close[n - 1]), 2) ELSE PyNone,
         curr_volume |-> Round(R(d.Volume[n]), 0),
         prev_volume |-> IF n >= 2 THEN Round(R(d.Volume[n - 1]), 0) ELSE PyNone]

\* the dict check_buy_rules returns for a DataFrame that carries the columns
BuyVerdicts(d) ==
    LET rule_5 == Rule5(d)
    IN  [kind    |-> "verdicts",
         rule_1  |-> Rule1(d),
         rule_2  |-> Rule2(d),
         rule_3  |-> Rule3(d),
         rule_4  |-> Rule4(d),
         rule_5  |-> rule_5,
         rule_6  |-> Rule6(d, rule_5),
         rule_7  |-> Rule7(d),
         rule_8  |-> Rule8(d),
         rule_9  |-> Rule9(d),
         rule_10 |-> Rule10(d)] @@ Indicators(d)

\* the DataFrame after check_buy_rules assigned its columns
BuyColumns(d) == calculate_macd(AddWeeklyMAs(d))

TooShortMutant(d) == Rows(d) < MinWeeks - 1

\* if len(df) < 30: return None
TooShort(d) == Rows(d) < MinWeeks

\* stock_utils.check_buy_rules(df): [ret, df after the call]
check_buy_rules(d) ==
    IF TooShort(d) THEN [ret |-> PyNone, df |-> d]
    ELSE LET cols == BuyColumns(d) IN [ret |-> BuyVerdicts(cols), df |-> cols]


\* stock_utils.get_stock_analysis(symbol, market) on what the provider returned;
\* get_stock_data turns an exception or an empty frame into None
get_stock_analysis(f) ==
    IF f = FetchError \/ Rows(f) = 0 THEN [ret |-> PyNone, df |-> f]
    ELSE IF Rows(f) < 30 THEN [ret |-> PyNone, df |-> f]
    ELSE check_buy_rules(f)

\* stock_utils_hk.check_buy_rules(df): the same text as stock_utils.check_buy_rules
TooShortHK(d) == Rows(d) < 30

check_buy_rules_hk(d) ==
    IF TooShortHK(d) THEN [ret |-> PyNone, df |-> d]
    ELSE LET cols == BuyColumns(d) IN [ret |-> BuyVerdicts(cols), df |-> cols]

get_stock_analysis_hk(f) ==
    IF f = FetchError \/ Rows(f) = 0 THEN [ret |-> PyNone, df |-> f]
    ELSE IF Rows(f) < 30 THEN [ret |-> PyNone, df |-> f]
    ELSE check_buy_rules_hk(f)

\* scanNasdaq100.get_stock_analysis(symbol): the whole body is inside try/except
TooShortScan(d) == Rows(d) < 30

scan_get_stock_analysis(f) ==
    IF f = FetchError THEN [ret |-> PyNone, df |-> f]
    ELSE IF TooShortScan(f) THEN [ret |-> PyNone, df |-> f]
    ELSE LET cols == BuyColumns(f) IN [ret |-> BuyVerdicts(cols), df |-> cols]

-----------------------------------------------------------------------------
(* main.py: the single-market pipeline's own evaluator, nine rules, no      *)
(* length check and no NaN guards on rules 1-3 and 8                        *)

MainVerdicts(d) ==
    LET n      == Rows(d)
        rule_5 == Rule5(d)
    IN  [kind   |-> "verdicts",
         rule_1 |-> RGt(d.ma10[n], d.ma20[n]),
         rule_2 |-> RGt(R(d.Close[n]), d.ma20[n]),
         rule_3 |-> RGt(R(d.Close[n]), d.ma30[n]),
         rule_4 |-> Rule4(d),
         rule_5 |-> rule_5,
         rule_6 |-> Rule6(d, rule_5),
         rule_7 |-> Rule7(d),
         rule_8 |-> Rule8(d),
         rule_9 |-> Rule9(d)] @@ Indicators(d)

\* main.get_stock_analysis(symbol): a provider exception propagates, and
\* df.iloc[-1] raises IndexError on an empty frame (after the columns were added)
main_get_stock_analysis(f) ==
    IF f = FetchError THEN [ret |-> Raised, df |-> f]
    ELSE IF Rows(f) = 0 THEN [ret |-> Raised, df |-> BuyColumns(f)]
    ELSE LET cols == BuyColumns(f) IN [ret |-> MainVerdicts(cols), df |-> cols]

B2N(b) == IF b THEN 1 ELSE 0

\* main.main, lines 293-296: the count printed as "rules_passed/9"
MainRulesPassed(data) ==
    B2N(data.rule_1) + B2N(data.rule_2) + B2N(data.rule_3) + B2N(data.rule_4)
    + B2N(data.rule_5) + B2N(data.rule_6) + B2N(data.rule_7) + B2N(data.rule_8)
    + B2N(data.rule_9)

-----------------------------------------------------------------------------
(* Weekly series the provider can return.  A series is a run of bars at one *)
(* close (PadClose) followed by two free bars: the EMA recurrences are then *)
(* exact within machine integers.                                           *)

PadClose == 20
MaxExtraWeeks == 1

TailCloses == {16, 20, 21, 24}
PrevTailBars == [Close : TailCloses, OpenOffset : {0 - 1, 1}, Volume : {50}]
LastTailBars == [Close : TailCloses, OpenOffset : {0 - 1, 1}, Volume : {1, 200}]
Tails == PrevTailBars \X LastTailBars

OpenPatterns   == {"down", "alt", "up"}
VolumePatterns == {"rising", "falling"}

PadOpen(i, op) ==
    IF op = "down" THEN PadClose + 1
    ELSE IF op = "up" THEN PadClose - 1
    ELSE IF i % 2 = 1 THEN PadClose + 1 ELSE PadClose - 1

PadVolume(i, vp) == IF vp = "rising" THEN i ELSE 100 - i

\* bar i of an n-bar series: the last two bars are the free ones
MakeDf(n, op, vp, tail) ==
    LET T(i) == tail[i - n + 2]
        free(i) == i > n - 2
    IN  [Open   |-> [i \in 1..n |-> IF free(i) THEN T(i).Close + T(i).OpenOffset
                                     ELSE PadOpen(i, op)],
         Low    |-> [i \in 1..n |-> IF free(i) THEN T(i).Close - 2
                                     ELSE PadClose - 1],
         Close  |-> [i \in 1..n |-> IF free(i) THEN T(i).Close ELSE PadClose],
         Volume |-> [i \in 1..n |-> IF free(i) THEN T(i).Volume
                                     ELSE PadVolume(i, vp)]]

WeeklyLengths == {0, 1, MinWeeks - 1} \cup (MinWeeks..(MinWeeks + MaxExtraWeeks))

WeeklySeries ==
    {MakeDf(n, op, vp, tail) :
        n \in WeeklyLengths, op \in OpenPatterns, vp \in VolumePatterns, tail \in Tails}

-----------------------------------------------------------------------------
(* The buy evaluation as a state machine: the provider has answered (Init), *)
(* then one of the evaluators runs on the answer.                           *)

IdleBuy ==
    /\ pc = "off" /\ evaluator = "none" /\ fetched = PyNone
    /\ df = PyNone /\ result = PyNone /\ first_run = PyNone
IdleStop ==
    /\ slpc = "off" /\ records = <<>> /\ idx = 1 /\ triggered_records = <<>>
    /\ all_records_data = <<>> /\ failed_records = <<>> /\ calls = <<>>
    /\ report = PyNone
IdleSell ==
    /\ sellpc = "off" /\ selldf = PyNone /\ info_price = PyNone
    /\ sellcall = "none" /\ sellres = PyNone /\ sell_lists = PyNone
IdleIndex ==
    /\ ixpc = {} /\ ix_price = PyNone /\ monthly_df = PyNone /\ weekly_df = PyNone
    /\ buy_result = PyNone /\ sell_result = PyNone
    /\ buy_report = PyNone /\ sell_report = PyNone
IdleBatch ==
    /\ bpc = "off" /\ pipeline = "none" /\ watchlist = <<>> /\ bidx = 1
    /\ stocks_data = <<>> /\ failed_stocks = <<>> /\ worthy_stocks = <<>>
    /\ evals = <<>> /\ rendered = PyNone /\ emails = <<>>
IdleLoad ==
    /\ loadpc = "off" /\ loader = "none" /\ store_file = PyNone /\ loaded = PyNone
IdleVolume ==
    /\ volpc = "off" /\ volume_df = PyNone /\ volume_analysis = PyNone

InitBuy ==
    /\ pc = "fetched"
    /\ evaluator = "none"
    /\ fetched \in WeeklySeries \cup {FetchError}
    /\ df = fetched
    /\ result = PyNone
    /\ first_run = PyNone
    /\ IdleStop /\ IdleSell /\ IdleIndex /\ IdleBatch /\ IdleLoad
    /\ IdleVolume

Evaluate(name, out) ==
    /\ pc = "fetched"
    /\ pc' = "done"
    /\ evaluator' = name
    /\ LET o == out IN result' = o.ret /\ df' = o.df
    /\ UNCHANGED <<fetched, first_run, varsStop, varsSell, varsIndex,
                   varsBatch, varsLoad, varsVolume>>

CheckBuyRules ==
    /\ fetched # FetchError
    /\ Evaluate("check_buy_rules", check_buy_rules(df))

GetStockAnalysis == Evaluate("get_stock_analysis", get_stock_analysis(df))

CheckBuyRulesHK ==
    /\ fetched # FetchError
    /\ Evaluate("check_buy_rules_hk", check_buy_rules_hk(df))

GetStockAnalysisHK == Evaluate("get_stock_analysis_hk", get_stock_analysis_hk(df))

ScanGetStockAnalysis ==
    Evaluate("scan_get_stock_analysis", scan_get_stock_analysis(df))

MainGetStockAnalysis ==
    Evaluate("main_get_stock_analysis", main_get_stock_analysis(df))

NextBuy ==
    \/ CheckBuyRules
    \/ GetStockAnalysis
    \/ CheckBuyRulesHK
    \/ GetStockAnalysisHK
    \/ ScanGetStockAnalysis
    \/ MainGetStockAnalysis

SpecBuy == InitBuy /\ [][NextBuy]_vars

-----------------------------------------------------------------------------
(* Properties of the buy checklist *)

SharedEvaluators ==
    {"check_buy_rules", "get_stock_analysis", "check_buy_rules_hk",
     "get_stock_analysis_hk", "scan_get_stock_analysis"}

Evaluated == pc = "done" /\ fetched # FetchError

\* C1: for every series of fewer than 30 bars the shared evaluators
\* (check_buy_rules / get_stock_analysis of stock_utils and stock_utils_hk,
\* get_stock_analysis of scanNasdaq100) return None and no rule verdict.
C1_ShortSeriesReturnsNone ==
    (Evaluated /\ evaluator \in SharedEvaluators /\ Rows(fetched) < 30)
        => (result = PyNone /\ result.kind # "verdicts")

C1_Witness ==
    /\ Evaluated
    /\ evaluator = "check_buy_rules"
    /\ Rows(fetched) = 29
    /\ result = PyNone

\* C2: main.get_stock_analysis applied to a series of fewer than 30 bars
\* returns an insufficient-data result and never a set of rule verdicts
\* (which main would count as N/9).
C2_MainShortSeriesIsInsufficient ==
    (Evaluated /\ evaluator = "main_get_stock_analysis" /\ Rows(fetched) < 30)
        => result.kind # "verdicts"

\* C3: in every returned verdict set, rule_6 is false whenever rule_5 is false.
C3_Rule6ImpliesRule5 ==
    (pc = "done" /\ result.kind = "verdicts") => (result.rule_6 => result.rule_5)

C3_Witness ==
    /\ pc = "done"
    /\ result.kind = "verdicts"
    /\ ~result.rule_5
    /\ ~result.rule_6
    /\ Rows(fetched) >= 30
    /\ DownVolumeShrinks(fetched)

\* C4: for a series of at least 30 bars rule_10 is true exactly when the
\* latest close is >= every close of the 10-bar window ending at the latest
\* bar (the latest bar included); a tie with an earlier bar still gives true.
C4_Rule10IsWindowMaximum ==
    (Evaluated /\ evaluator \in SharedEvaluators /\ result.kind = "verdicts")
        => LET n == Rows(fetched)
           IN  /\ n >= 30
               /\ result.rule_10
                    <=> \A i \in (n - 9)..n : fetched.Close[n] >= fetched.Close[i]

C4_Witness ==
    /\ Evaluated
    /\ evaluator \in SharedEvaluators
    /\ result.kind = "verdicts"
    /\ result.rule_10
    /\ LET n == Rows(fetched)
       IN  \E i \in (n - 9)..(n - 1) : fetched.Close[i] = fetched.Close[n]

-----------------------------------------------------------------------------
(* The same DataFrame object evaluated twice: check_buy_rules assigns its   *)
(* columns in place, so the second call works on the frame the first left.  *)

CheckBuyRulesAgain ==
    /\ pc = "done"
    /\ evaluator \in {"check_buy_rules", "check_buy_rules_hk"}
    /\ first_run' = [ret |-> result, df |-> df]
    /\ LET o == IF evaluator = "check_buy_rules" THEN check_buy_rules(df)
                ELSE check_buy_rules_hk(df)
       IN  result' = o.ret /\ df' = o.df
    /\ pc' = "twice"
    /\ UNCHANGED <<evaluator, fetched, varsStop, varsSell, varsIndex,
                   varsBatch, varsLoad, varsVolume>>

NextTwice == CheckBuyRules \/ CheckBuyRulesHK \/ CheckBuyRulesAgain

SpecTwice == InitBuy /\ [][NextTwice]_vars

\* the bars of a frame, without the derived columns
Bars(d) == [Open |-> d.Open, Low |-> d.Low, Close |-> d.Close, Volume |-> d.Volume]

\* C22: a second check_buy_rules on the frame the first one evaluated returns
\* the same verdicts and indicator values and leaves the same derived
\* columns, and neither evaluation changes the bars.
C22_SecondEvaluationIsIdentical ==
    /\ (pc \in {"done", "twice"} /\ fetched # FetchError) => Bars(df) = Bars(fetched)
    /\ pc = "twice" =>
          /\ result = first_run.ret
          /\ df = first_run.df
          /\ Bars(first_run.df) = Bars(fetched)

\* 31 bars ending on a rise: verdicts with a positive DIF and DEA, twice
C22_Witness ==
    /\ pc = "twice"
    /\ Rows(fetched) = 31
    /\ result.kind = "verdicts"
    /\ first_run.ret.kind = "verdicts"
    /\ result.rule_9 /\ result.rule_1
    /\ "MACD_DEA" \in DOMAIN first_run.df
    /\ result.macd_dea # R(0)

-----------------------------------------------------------------------------
(* calculate_macd on its own: frames with a Close column, constant at one   *)
(* price over 1 to MaxMacdLen bars, or two or three bars at free prices.    *)

MaxMacdLen == 30

ConstantCloses == {1, 3, 20, 250, 9999}
FreeCloses     == {1, 20, 33}

ConstantFrames ==
    {[Close |-> [i \in 1..n |-> c]] : n \in 1..MaxMacdLen, c \in ConstantCloses}

FreeFrames ==
    {[Close |-> xs] : xs \in [1..2 -> FreeCloses] \cup [1..3 -> FreeCloses]}

InitMacd ==
    /\ pc = "close"
    /\ evaluator = "none"
    /\ fetched \in ConstantFrames \cup FreeFrames
    /\ df = fetched
    /\ result = PyNone
    /\ first_run = PyNone
    /\ IdleStop /\ IdleSell /\ IdleIndex /\ IdleBatch /\ IdleLoad /\ IdleVolume

\* df = calculate_macd(df)
CalculateMacd ==
    /\ pc = "close"
    /\ pc' = "macd"
    /\ evaluator' = "calculate_macd"
    /\ df' = calculate_macd(df)
    /\ UNCHANGED <<fetched, result, first_run, varsStop, varsSell, varsIndex,
                   varsBatch, varsLoad, varsVolume>>

NextMacd == CalculateMacd

SpecMacd == InitMacd /\ [][NextMacd]_vars

\* x * k + prev * (1 - k) with k = 2 / (span + 1), as one fraction
EmaStep(prev, x, span) ==
    RAdd(RMul(x, Norm(2, span + 1)), RMul(prev, Norm(span - 1, span + 1)))

\* ema[1] = x[1] and ema[i] = x[i] * k + ema[i-1] * (1 - k) afterwards
IsEma(ema, x, span) ==
    /\ Len(ema) = Len(x)
    /\ ema[1] = x[1]
    /\ \A i \in 2..Len(x) : ema[i] = EmaStep(ema[i - 1], x[i], span)

IsConstant(xs) == \A i \in 1..Len(xs) : xs[i] = xs[1]

\* C23: DIF is the difference of two sequences that obey the EMA recurrence
\* with spans 12 and 26 from ema[0] = x[0], DEA obeys it with span 9 on DIF;
\* on a constant-price series DIF and DEA are 0 at every bar.
C23_EmaRecurrenceAndConstantSeries ==
    pc = "macd" =>
        LET x == ToR(fetched.Close)
            n == Len(x)
        IN  /\ \E e12, e26 \in {Ewm(x, 12), Ewm(x, 26)} :
                  /\ IsEma(e12, x, 12)
                  /\ IsEma(e26, x, 26)
                  /\ \A i \in 1..n : df.MACD_DIF[i] = RSub(e12[i], e26[i])
                  /\ IsConstant(x) => \A i \in 1..n : e12[i] = x[1] /\ e26[i] = x[1]
            /\ IsEma(df.MACD_DEA, df.MACD_DIF, 9)
            /\ df.MACD_DIF[1] = R(0)
            /\ IsConstant(x) =>
                  \A i \in 1..n : df.MACD_DIF[i] = R(0) /\ df.MACD_DEA[i] = R(0)

\* thirty bars at one price: DIF and DEA are 0 on the last bar
C23_Witness ==
    /\ pc = "macd"
    /\ Rows(fetched) = 30
    /\ IsConstant(fetched.Close)
    /\ fetched.Close[1] = 250
    /\ df.MACD_DIF[30] = R(0)
    /\ df.MACD_DEA[30] = R(0)

-----------------------------------------------------------------------------
(* check_stop_loss.py: the stop-loss batch over the position store.         *)
(* Symbols are tuples of characters; prices and quantities are rationals.   *)

MARKET_US == "US"
MARKET_HK == "HK"

Digits == {"0", "1", "2", "3", "4", "5", "6", "7", "8", "9"}

\* stock_utils.detect_market: a code of exactly four digits is a HK stock
detect_market(symbol) ==
    IF Len(symbol) = 4 /\ \A i \in 1..Len(symbol) : symbol[i] \in Digits
    THEN MARKET_HK
    ELSE MARKET_US

STOP_LOSS_THRESHOLD == 7

PyBool(b) == IF b THEN "True" ELSE "False"

\* drop_pct = (purchase_price - current_price) / purchase_price * 100
DropPct(purchase_price, current_price) ==
    RMul(RDiv(RSub(purchase_price, current_price), purchase_price), R(100))

TriggeredMutant(drop_pct) == RGt(drop_pct, R(STOP_LOSS_THRESHOLD))

\* triggered = drop_pct >= STOP_LOSS_THRESHOLD
Triggered(drop_pct) == RGe(drop_pct, R(STOP_LOSS_THRESHOLD))

\* check_stop_loss(record), given what get_current_stock_price answered:
\* (None, error entry) or (triggered, analysis entry)
check_stop_loss(record, current_price) ==
    LET symbol   == record.symbol
        market   == detect_market(symbol)
        drop_pct == DropPct(record.purchase_price, current_price)
        quantity == record.quantity
        loss_amount ==
            IF quantity # PyNone
            THEN RMul(RSub(record.purchase_price, current_price), quantity)
            ELSE PyNone
    IN  IF ~({"symbol", "purchase_price", "purchase_date"} \subseteq DOMAIN record)
        THEN \* record['...'] raises KeyError before the price is fetched
             [result |-> "Raised", data |-> PyNone]
        ELSE IF current_price = PyNone
        THEN [result |-> "None",
              data   |-> [error          |-> "no current price",
                          symbol         |-> symbol,
                          market         |-> market,
                          purchase_price |-> record.purchase_price,
                          purchase_date  |-> record.purchase_date,
                          quantity       |-> quantity]]
        ELSE [result |-> PyBool(Triggered(drop_pct)),
              data   |-> [symbol         |-> symbol,
                          market         |-> market,
                          purchase_price |-> record.purchase_price,
                          purchase_date  |-> record.purchase_date,
                          quantity       |-> quantity,
                          current_price  |-> current_price,
                          drop_pct       |-> Round(drop_pct, 2),
                          loss_amount    |-> IF loss_amount # PyNone
                                             THEN Round(loss_amount, 2)
                                             ELSE PyNone,
                          triggered      |-> Triggered(drop_pct)]]

\* a Python dict as the list of its items in insertion order:
\* d[key] = value replaces the value of an existing key in place
DictSet(d, key, value) ==
    IF \E i \in 1..Len(d) : d[i].key = key
    THEN [i \in 1..Len(d) |->
            IF d[i].key = key THEN [key |-> key, value |-> value] ELSE d[i]]
    ELSE Append(d, [key |-> key, value |-> value])

\* list(d.values())
DictValues(d) == [i \in 1..Len(d) |-> d[i].value]

HasError(r) == "error" \in DOMAIN r

\* r.get(key, default)
Get(r, key, default) == IF key \in DOMAIN r THEN r[key] ELSE default

\* generate_stop_loss_report: the lists and counts the prompt is built from
generate_stop_loss_report(triggered, all_data) ==
    LET all_records_list == DictValues(all_data)
        IsValid(r)       == ~HasError(r)
        valid_records    == SelectSeq(all_records_list, IsValid)
        NotTriggered(r)  == ~r.triggered
        non_triggered_records == SelectSeq(valid_records, NotTriggered)
        IsUS(r) == r.market = MARKET_US
        IsHK(r) == r.market = MARKET_HK
    IN  [triggered_records     |-> triggered,
         non_triggered_records |-> non_triggered_records,
         us_count_all          |-> Len(SelectSeq(valid_records, IsUS)),
         hk_count_all          |-> Len(SelectSeq(valid_records, IsHK)),
         us_count_triggered    |-> Len(SelectSeq(triggered, IsUS)),
         hk_count_triggered    |-> Len(SelectSeq(triggered, IsHK)),
         total_records         |-> Len(valid_records),
         non_triggered_count   |-> Len(non_triggered_records)]

\* ---- inputs ----
MaxLots == 2

AAPL  == <<"A", "A", "P", "L">>
S0700 == <<"0", "7", "0", "0">>

Symbols        == {AAPL, S0700}
PurchasePrices == {R(100), R(145), R(150)}
CurrentPrices  == {R(93), R(138)}
Quantities     == {PyNone, R(10)}

\* a record of the store: well-formed, or lacking symbol or purchase_price
Lot(c, i) ==
    IF c.shape = "no symbol"
    THEN [purchase_price |-> c.purchase_price, purchase_date |-> i,
          quantity |-> c.quantity]
    ELSE IF c.shape = "no purchase_price"
    THEN [symbol |-> c.symbol, purchase_date |-> i, quantity |-> c.quantity]
    ELSE [symbol |-> c.symbol, purchase_price |-> c.purchase_price,
          purchase_date |-> i, quantity |-> c.quantity]

LotChoices ==
    [shape : {"full"}, symbol : Symbols, purchase_price : PurchasePrices,
     quantity : Quantities]
    \cup [shape : {"no symbol", "no purchase_price"}, symbol : {AAPL},
          purchase_price : {R(100)}, quantity : {PyNone}]

\* a store of n lots; purchase_date is the lot's position and identifies it
Stores(n) == {[i \in 1..n |-> Lot(f[i], i)] : f \in [1..n -> LotChoices]}

InitStop ==
    /\ slpc = "loop"
    /\ records \in UNION {Stores(n) : n \in 0..MaxLots}
    /\ idx = 1
    /\ triggered_records = <<>>
    /\ all_records_data = <<>>
    /\ failed_records = <<>>
    /\ calls = <<>>
    /\ report = PyNone
    /\ IdleBuy /\ IdleSell /\ IdleIndex /\ IdleBatch /\ IdleLoad
    /\ IdleVolume

\* one iteration of the loop of check_all_stop_loss (lines 124-163);
\* record['symbol'] at line 125 is read outside the try, so its KeyError
\* leaves the loop and the function and is caught by main (lines 359-362)
CheckNextRecord ==
    /\ slpc = "loop"
    /\ idx <= Len(records)
    /\ LET record == records[idx] IN
       IF "symbol" \notin DOMAIN record
       THEN /\ slpc' = "crashed"
            /\ UNCHANGED <<calls, all_records_data, failed_records,
                           triggered_records, idx>>
       ELSE
        /\ \E current_price \in
                IF "purchase_price" \in DOMAIN record
                THEN CurrentPrices \cup {PyNone} ELSE {PyNone} :
            LET symbol == record.symbol
                market == detect_market(symbol)
                ret    == check_stop_loss(record, current_price)
            IN  /\ calls' = Append(calls, [price |-> current_price, ret |-> ret])
                /\ all_records_data' =
                        IF ret.result = "Raised" THEN all_records_data
                        ELSE DictSet(all_records_data, <<market, symbol>>, ret.data)
                /\ failed_records' =
                        IF ret.result \in {"None", "Raised"}
                        THEN Append(failed_records, <<market, symbol>>)
                        ELSE failed_records
                /\ triggered_records' =
                        IF ret.result = "True"
                        THEN Append(triggered_records, ret.data)
                        ELSE triggered_records
        /\ idx' = idx + 1
        /\ slpc' = slpc
    /\ UNCHANGED <<records, report, varsBuy, varsSell, varsIndex,
                   varsBatch, varsLoad, varsVolume>>

\* main, lines 331-335: nothing was checked, no report
MainAbort ==
    /\ slpc = "loop"
    /\ idx > Len(records)
    /\ Len(all_records_data) = 0
    /\ slpc' = "aborted"
    /\ UNCHANGED <<records, idx, triggered_records, all_records_data,
                   failed_records, calls, report, varsBuy, varsSell, varsIndex,
                   varsBatch, varsLoad, varsVolume>>

\* main, line 345: the report is generated from the batch's two return values
GenerateReport ==
    /\ slpc = "loop"
    /\ idx > Len(records)
    /\ Len(all_records_data) > 0
    /\ report' = generate_stop_loss_report(triggered_records, all_records_data)
    /\ slpc' = "reported"
    /\ UNCHANGED <<records, idx, triggered_records, all_records_data,
                   failed_records, calls, varsBuy, varsSell, varsIndex,
                   varsBatch, varsLoad, varsVolume>>

NextStop == CheckNextRecord \/ MainAbort \/ GenerateReport

SpecStop == InitStop /\ [][NextStop]_vars

-----------------------------------------------------------------------------
(* Properties of the stop-loss batch *)

\* the lot at position i was processed and its price was obtained
PricedLot(i) == i \in 1..Len(calls) /\ calls[i].price # PyNone

\* C5: for every lot with purchase_price > 0 whose price was obtained,
\* triggered <=> (purchase_price - current_price) * 100 >= 7 * purchase_price;
\* a drop of exactly 7% triggers, and the verdict depends only on the lot's own
\* purchase price and the current price.
C5_TriggeredIffDropAtLeastSeven ==
    \A i \in 1..Len(calls) :
        (PricedLot(i) /\ records[i].purchase_price.n > 0) =>
            LET pp == records[i].purchase_price.n
                cp == calls[i].price.n
            IN  /\ calls[i].ret.data.triggered <=> ((pp - cp) * 100 >= 7 * pp)
                /\ calls[i].ret.result = PyBool((pp - cp) * 100 >= 7 * pp)

\* two lots of one symbol at 150 and 145, both priced 138: only the first triggers
C5_Witness ==
    \E i, j \in 1..Len(calls) :
        /\ PricedLot(i) /\ PricedLot(j)
        /\ records[i].symbol = records[j].symbol
        /\ records[i].purchase_price = R(150) /\ calls[i].price = R(138)
        /\ records[j].purchase_price = R(145) /\ calls[j].price = R(138)
        /\ calls[i].ret.result = "True"
        /\ calls[j].ret.result = "False"

SameLot(r, i) ==
    ~HasError(r) /\ r.symbol = records[i].symbol /\ r.purchase_date = i

Occurrences(xs, i) == Cardinality({k \in 1..Len(xs) : SameLot(xs[k], i)})

\* C6: after the batch every lot whose price was obtained has its own retained
\* analysis entry, and in the report it appears in exactly one of the
\* triggered list and the non-triggered list.
C6_EveryPricedLotIsReported ==
    slpc = "reported" =>
        \A i \in 1..Len(calls) :
            PricedLot(i) =>
                /\ Occurrences(DictValues(all_records_data), i) = 1
                /\ Occurrences(report.triggered_records, i)
                   + Occurrences(report.non_triggered_records, i) = 1

FailedLabels == {failed_records[k] : k \in 1..Len(failed_records)}

\* C14: a record whose evaluation fails, a record lacking symbol or
\* purchase_price included, is recorded as failed and the remaining records
\* of the store are still evaluated.
C14_FailedRecordIsIsolated ==
    /\ slpc # "crashed"
    /\ slpc \in {"reported", "aborted"} =>
          /\ Len(calls) = Len(records)
          /\ \A i \in 1..Len(calls) :
                calls[i].ret.result \in {"None", "Raised"} =>
                    <<detect_market(records[i].symbol), records[i].symbol>>
                        \in FailedLabels

\* C16: when no record of the batch yields a valid result, the report is not
\* generated (the renderer is never called).
C16_NoValidResultAbortsReport ==
    (/\ slpc # "off"
     /\ \A i \in 1..Len(calls) : calls[i].ret.result \notin {"True", "False"}) =>
        /\ report = PyNone
        /\ slpc # "reported"

-----------------------------------------------------------------------------
(* sellSingleStock.py: the MACD death-cross sell check.  Row r of the model *)
(* is df.iloc[r - 1]; the index the code returns is 0-based.                *)

NoCross == [index |-> PyNone, low |-> PyNone]

\* the test of lines 57-61 at row r (r >= 2): "skip" | "cross" | "no"
CrossTest(d, r) ==
    LET prev_dif == d.MACD_DIF[r - 1]
        prev_dea == d.MACD_DEA[r - 1]
        curr_dif == d.MACD_DIF[r]
        curr_dea == d.MACD_DEA[r]
    IN  IF IsNaN(prev_dif) \/ IsNaN(prev_dea) \/ IsNaN(curr_dif) \/ IsNaN(curr_dea)
        THEN "skip"
        ELSE IF RGt(prev_dif, prev_dea) /\ RLe(curr_dif, curr_dea) THEN "cross"
        ELSE "no"

\* for i in range(len(df) - 1, 0, -1), from row r = i + 1 downwards
RECURSIVE ScanBack(_, _)
ScanBack(d, r) ==
    IF r < 2 THEN NoCross
    ELSE IF CrossTest(d, r) = "cross" THEN [index |-> R(r - 1), low |-> R(d.Low[r])]
    ELSE ScanBack(d, r - 1)

\* the scan run from the oldest bar forwards: returns the first crossing
RECURSIVE ScanForward(_, _)
ScanForward(d, r) ==
    IF r > Rows(d) THEN NoCross
    ELSE IF CrossTest(d, r) = "cross" THEN [index |-> R(r - 1), low |-> R(d.Low[r])]
    ELSE ScanForward(d, r + 1)

find_first_death_cross_week(d) ==
    IF Rows(d) < 2 THEN NoCross ELSE ScanForward(d, 2)

find_last_death_cross_week(d) ==
    IF Rows(d) < 2 THEN NoCross ELSE ScanBack(d, Rows(d))

ShouldSellMutant(current_price, death_cross_week_low) ==
    RLe(current_price, death_cross_week_low)

\* should_sell = current_price < death_cross_week_low
ShouldSell(current_price, death_cross_week_low) ==
    RLt(current_price, death_cross_week_low)

\* lines 89-98: the real-time price, or the latest close when it is absent
\* or ticker.info raises
CurrentPrice(d, info) ==
    IF info = PyNone \/ info = Raised THEN R(d.Close[Rows(d)]) ELSE info

\* check_sell_signal(symbol), given the provider's answers: [ret, data, df]
check_sell_signal(f, info) ==
    IF f = FetchError THEN [ret |-> Raised, data |-> PyNone, df |-> f]
    ELSE IF Rows(f) < 2
    THEN [ret  |-> "False",
          data |-> [error |-> "insufficient data", price |-> PyNone,
                    death_cross_week_low |-> PyNone],
          df   |-> f]
    ELSE LET d             == calculate_macd(f)
             current_price == CurrentPrice(d, info)
             found         == find_last_death_cross_week(d)
             low           == found.low
             should_sell   == ShouldSell(current_price, low)
         IN  IF found.index = PyNone \/ found.low = PyNone
             THEN [ret  |-> "False",
                   data |-> [price                |-> Round(current_price, 2),
                             death_cross_week_low |-> PyNone,
                             death_cross_found    |-> FALSE,
                             should_sell          |-> FALSE,
                             reason               |-> "no death cross found"],
                   df   |-> d]
             ELSE [ret  |-> PyBool(should_sell),
                   data |-> [price                |-> Round(current_price, 2),
                             death_cross_week_low |-> Round(low, 2),
                             death_cross_date     |-> found.index,
                             death_cross_found    |-> TRUE,
                             should_sell          |-> should_sell,
                             price_drop_pct       |->
                                IF RGt(low, R(0))
                                THEN Round(RMul(RDiv(RSub(current_price, low), low),
                                                R(100)), 2)
                                ELSE PyNone,
                             reason               |->
                                IF should_sell THEN "price broke the cross-week low"
                                ELSE "price did not break the cross-week low"],
                   df   |-> d]

\* ---- inputs ----
MaxSynthLen == 4

\* DataFrames that already carry MACD columns: DIF in {-1, 0, 1, NaN} against
\* DEA in {0, NaN}; Low[r] = 10 + r names the bar
SynthCells == [dif : {R(0 - 1), R(0), R(1), NaN}, dea : {R(0), NaN}]

SynthDfs ==
    UNION {{[MACD_DIF |-> [r \in 1..n |-> c[r].dif],
             MACD_DEA |-> [r \in 1..n |-> c[r].dea],
             Low      |-> [r \in 1..n |-> 10 + r],
             Close    |-> [r \in 1..n |-> 12 + r]] :
            c \in [1..n -> SynthCells]} : n \in 0..MaxSynthLen}

SellTails ==
    {t \in Tails : t[1].OpenOffset = 1 /\ t[2].OpenOffset = 1 /\ t[2].Volume = 1}

SellSeries == {MakeDf(n, "up", "rising", t) : n \in 0..4, t \in SellTails}

InfoPrices == {PyNone, Raised, R(13), R(14), R(15)}

IsSynth(d) == d # FetchError /\ "MACD_DIF" \in DOMAIN d

InitSell ==
    /\ sellpc = "input"
    /\ selldf \in SynthDfs \cup SellSeries \cup {FetchError}
    /\ info_price \in IF IsSynth(selldf) THEN {PyNone} ELSE InfoPrices
    /\ sellcall = "none"
    /\ sellres = PyNone
    /\ sell_lists = PyNone
    /\ IdleBuy /\ IdleStop /\ IdleIndex /\ IdleBatch /\ IdleLoad
    /\ IdleVolume

\* find_last_death_cross_week called on a DataFrame with MACD columns
FindLastDeathCrossWeek ==
    /\ sellpc = "input"
    /\ IsSynth(selldf)
    /\ sellres' = find_last_death_cross_week(selldf)
    /\ sellcall' = "find"
    /\ sellpc' = "done"
    /\ UNCHANGED <<selldf, info_price, sell_lists, varsBuy, varsStop, varsIndex,
                   varsBatch, varsLoad, varsVolume>>

\* check_sell_signal(symbol) on the fetched weekly series
CheckSellSignal ==
    /\ sellpc = "input"
    /\ ~IsSynth(selldf)
    /\ LET out == check_sell_signal(selldf, info_price)
       IN  /\ sellres' = [ret |-> out.ret, data |-> out.data]
           /\ selldf' = out.df
    /\ sellcall' = "check"
    /\ sellpc' = "done"
    /\ UNCHANGED <<info_price, sell_lists, varsBuy, varsStop, varsIndex,
                   varsBatch, varsLoad, varsVolume>>

\* the symbol the sell pipeline is run for
SellSymbol == "NVDA"

\* the loop of sellSingleStock.main (lines 248-264) over the one symbol, given
\* what check_sell_signal did
sell_main_loop(out) ==
    IF out.data = PyNone   \* check_sell_signal raised
    THEN [stocks_data |-> <<>>, failed_stocks |-> <<SellSymbol>>,
          sell_signals |-> <<>>, printed |-> "failed"]
    ELSE [stocks_data   |-> DictSet(<<>>, SellSymbol, out.data),
          failed_stocks |-> <<>>,
          sell_signals  |-> IF out.ret = "True" THEN <<SellSymbol>> ELSE <<>>,
          printed       |-> IF out.ret = "True" THEN "sell signal"
                            ELSE "continue holding"]

\* generate_sell_report (lines 139-147): the two lists of symbols
generate_sell_report(sd) ==
    LET Keys(S) == [i \in 1..Len(S) |-> S[i].key]
    IN  [sell_stocks |-> Keys(SelectSeq(sd, LAMBDA e : Get(e.value, "should_sell", FALSE))),
         hold_stocks |-> Keys(SelectSeq(sd, LAMBDA e : ~Get(e.value, "should_sell", FALSE)))]

\* sellSingleStock.main after the check: abort when nothing was stored,
\* otherwise the report is generated from stocks_data
ReportSell ==
    /\ sellpc = "done" /\ sellcall = "check"
    /\ LET loop == sell_main_loop(sellres)
       IN  IF Len(loop.stocks_data) = 0
           THEN /\ sellpc' = "aborted"
                /\ sell_lists' = [printed |-> loop.printed]
           ELSE /\ sellpc' = "reported"
                /\ sell_lists' = [printed |-> loop.printed,
                                  sell_signals |-> loop.sell_signals]
                                 @@ generate_sell_report(loop.stocks_data)
    /\ UNCHANGED <<selldf, info_price, sellcall, sellres, varsBuy, varsStop,
                   varsIndex, varsBatch, varsLoad, varsVolume>>

NextSell == FindLastDeathCrossWeek \/ CheckSellSignal \/ ReportSell

SpecSell == InitSell /\ [][NextSell]_vars

-----------------------------------------------------------------------------
(* Properties of the death-cross sell check *)

\* 0-based indices i >= 1 with DIF[i-1] > DEA[i-1] and DIF[i] <= DEA[i], all defined
CrossIndices(d) ==
    {i \in 1..(Rows(d) - 1) :
        /\ ~IsNaN(d.MACD_DIF[i]) /\ ~IsNaN(d.MACD_DEA[i])
        /\ ~IsNaN(d.MACD_DIF[i + 1]) /\ ~IsNaN(d.MACD_DEA[i + 1])
        /\ RLt(d.MACD_DEA[i], d.MACD_DIF[i])
        /\ ~RLt(d.MACD_DEA[i + 1], d.MACD_DIF[i + 1])}

LastCrossIndex(d) == CHOOSE i \in CrossIndices(d) : \A j \in CrossIndices(d) : j <= i

\* C7: find_last_death_cross_week returns the largest crossing index together
\* with the low of that bar, whatever non-crossing bars follow it, and
\* (None, None) when no index crosses or the series has fewer than 2 bars.
C7_ReturnsLastCrossing ==
    (sellpc = "done" /\ sellcall = "find") =>
        IF CrossIndices(selldf) = {}
        THEN sellres = NoCross
        ELSE /\ sellres.index = R(LastCrossIndex(selldf))
             /\ sellres.low = R(selldf.Low[LastCrossIndex(selldf) + 1])

\* a crossing at an index k that is followed by at least one bar that does not cross
C7_Witness ==
    /\ sellpc = "done" /\ sellcall = "find"
    /\ CrossIndices(selldf) # {}
    /\ LastCrossIndex(selldf) < Rows(selldf) - 1
    /\ selldf.MACD_DIF[Rows(selldf)] # selldf.MACD_DIF[LastCrossIndex(selldf) + 1]
    /\ sellres.index = R(LastCrossIndex(selldf))

\* C8: with a death cross, the sell signal is true iff current_price is
\* strictly below the low of the crossing bar; without one the signal is false
\* and death_cross_found = false, unlike the not-triggered result
\* (death_cross_found = true, should_sell = false).
C8_SellIffBelowCrossLow ==
    (sellpc = "done" /\ sellcall = "check" /\ selldf # FetchError
        /\ Rows(selldf) >= 2) =>
        LET cp == CurrentPrice(selldf, info_price)
        IN  IF CrossIndices(selldf) = {}
            THEN /\ sellres.ret = "False"
                 /\ sellres.data.death_cross_found = FALSE
                 /\ sellres.data.should_sell = FALSE
            ELSE LET low == selldf.Low[LastCrossIndex(selldf) + 1]
                 IN  /\ sellres.data.death_cross_found = TRUE
                     /\ sellres.data.should_sell
                            <=> (cp.n < low * cp.d)
                     /\ sellres.ret = PyBool(cp.n < low * cp.d)

\* the price equals the low of the crossing bar: found, and no sell
C8_Witness ==
    /\ sellpc = "done" /\ sellcall = "check" /\ selldf # FetchError
    /\ Rows(selldf) >= 2
    /\ CrossIndices(selldf) # {}
    /\ CurrentPrice(selldf, info_price) = R(selldf.Low[LastCrossIndex(selldf) + 1])
    /\ sellres.ret = "False"
    /\ sellres.data.death_cross_found = TRUE

ToList(xs) == {xs[i] : i \in 1..Len(xs)}

\* C27: for a series of fewer than 2 bars check_sell_signal does not return
\* the false verdict it returns for "not triggered", and neither main nor
\* generate_sell_report classifies the symbol as continue holding.
C27_InsufficientIsNotHold ==
    (sellcall = "check" /\ sellpc # "input" /\ selldf # FetchError
        /\ Rows(selldf) < 2) =>
        /\ sellres.ret # "False"
        /\ sellpc = "reported" =>
              /\ sell_lists.printed # "continue holding"
              /\ SellSymbol \notin ToList(sell_lists.hold_stocks)

-----------------------------------------------------------------------------
(* check_index_buy.py / check_index_sell.py: the two-rule index checks.     *)
(* Both run on the answers the providers give for one symbol: the current  *)
(* price, the monthly series and the weekly series.                        *)

\* get_stock_data: an exception or an empty frame becomes None
get_stock_data(f) == IF f = FetchError \/ Rows(f) = 0 THEN PyNone ELSE f

PositiveSignalMutant(total_up_volume, total_down_volume) ==
    total_up_volume > total_down_volume

\* positive_signal = total_up_volume > total_down_volume
\*                   if total_up_volume > 0 and total_down_volume > 0 else False
PositiveSignal(total_up_volume, total_down_volume) ==
    IF total_up_volume > 0 /\ total_down_volume > 0
    THEN total_up_volume > total_down_volume
    ELSE FALSE

\* analyze_volume_trend(monthly_df): the last 10 months; diff() leaves the
\* first row of the window without a change (NaN), so it is not "up"
analyze_volume_trend(m) ==
    IF Rows(m) < 10 THEN [error |-> "fewer than 10 months"]
    ELSE
    LET n     == Rows(m)
        first == n - 9
        price_change(r)  == IF r = first THEN NaN ELSE R(m.Close[r] - m.Close[r - 1])
        volume_change(r) == IF r = first THEN NaN ELSE R(m.Volume[r] - m.Volume[r - 1])
        is_up(r)    == RGt(price_change(r), R(0))
        up_months   == {r \in first..n : is_up(r)}
        down_months == {r \in first..n : ~is_up(r)}
        Vol[S \in SUBSET (first..n)] ==
            IF S = {} THEN 0
            ELSE LET r == CHOOSE x \in S : TRUE IN m.Volume[r] + Vol[S \ {r}]
        total_up_volume   == Vol[up_months]
        total_down_volume == Vol[down_months]
        positive_signal == PositiveSignal(total_up_volume, total_down_volume)
        up_with_volume_increase ==
            IF Cardinality(up_months) > 0
            THEN RMul(Norm(Cardinality({r \in up_months : RGt(volume_change(r), R(0))}),
                           Cardinality(up_months)), R(100))
            ELSE R(0)
        down_with_volume_decrease ==
            IF Cardinality(down_months) > 0
            THEN RMul(Norm(Cardinality({r \in down_months : RLt(volume_change(r), R(0))}),
                           Cardinality(down_months)), R(100))
            ELSE R(0)
        volume_ratio ==
            IF total_down_volume > 0 THEN Norm(total_up_volume, total_down_volume)
            ELSE R(0)
    IN  [up_months_count   |-> Cardinality(up_months),
         down_months_count |-> Cardinality(down_months),
         total_up_volume   |-> Round(R(total_up_volume), 0),
         total_down_volume |-> Round(R(total_down_volume), 0),
         volume_ratio      |-> Round(volume_ratio, 2),
         up_with_volume_increase_pct   |-> Round(up_with_volume_increase, 1),
         down_with_volume_decrease_pct |-> Round(down_with_volume_decrease, 1),
         positive_signal   |-> positive_signal]

ShouldBuyMutant(rule_1_passed, rule_2_passed) == rule_1_passed \/ rule_2_passed

\* should_buy = rule_1_passed and rule_2_passed
ShouldBuy(rule_1_passed, rule_2_passed) == rule_1_passed /\ rule_2_passed

\* check_index_buy_signal(symbol), given the providers' answers
check_index_buy_signal(price, mf, wf) ==
    LET monthly == get_stock_data(mf)
        weekly  == get_stock_data(wf)
        mma10   == RollingMean(monthly.Close, 10)
        current_10ma_monthly == mma10[Rows(monthly)]
        prev_10ma_monthly    == mma10[Rows(monthly) - 1]
        rule_1_passed == RGt(current_10ma_monthly, prev_10ma_monthly)
        ma10_weekly   == RollingMean(weekly.Close, 10)[Rows(weekly)]
        ma20_weekly   == RollingMean(weekly.Close, 20)[Rows(weekly)]
        rule_2_passed == RGt(ma10_weekly, ma20_weekly)
        should_buy    == ShouldBuy(rule_1_passed, rule_2_passed)
        Err(msg)      == [ret |-> "None", data |-> [error |-> msg, current_price |-> price]]
        Err1(msg)     == [ret  |-> "None",
                          data |-> [error |-> msg, current_price |-> price,
                                    current_10ma_monthly |-> Round(current_10ma_monthly, 2),
                                    prev_10ma_monthly |-> Round(prev_10ma_monthly, 2),
                                    rule_1_passed |-> rule_1_passed]]
    IN  IF price = PyNone THEN [ret |-> "None", data |-> [error |-> "no current price"]]
        ELSE IF monthly = PyNone \/ Rows(monthly) < 12 THEN Err("monthly data < 12")
        ELSE IF IsNaN(current_10ma_monthly) \/ IsNaN(prev_10ma_monthly)
             THEN Err("monthly 10MA undefined")
        ELSE IF weekly = PyNone \/ Rows(weekly) < 25 THEN Err1("weekly data < 25")
        ELSE IF IsNaN(ma10_weekly) \/ IsNaN(ma20_weekly) THEN Err1("weekly MA undefined")
        ELSE [ret  |-> PyBool(should_buy),
              data |-> [current_price        |-> price,
                        current_10ma_monthly |-> Round(current_10ma_monthly, 2),
                        prev_10ma_monthly    |-> Round(prev_10ma_monthly, 2),
                        rule_1_passed        |-> rule_1_passed,
                        ma10_weekly          |-> Round(ma10_weekly, 2),
                        ma20_weekly          |-> Round(ma20_weekly, 2),
                        rule_2_passed        |-> rule_2_passed,
                        should_buy           |-> should_buy,
                        volume_analysis      |-> analyze_volume_trend(monthly)]]

IndexShouldSellMutant(rule_1_triggered, rule_2_triggered) ==
    rule_1_triggered /\ rule_2_triggered

\* should_sell = rule_1_triggered or rule_2_triggered
IndexShouldSell(rule_1_triggered, rule_2_triggered) ==
    rule_1_triggered \/ rule_2_triggered

\* check_index_sell_signal(record), given the providers' answers
check_index_sell_signal(record, price, mf, wf) ==
    LET monthly == get_stock_data(mf)
        weekly  == get_stock_data(wf)
        mma10   == RollingMean(monthly.Close, 10)
        current_10ma_monthly == mma10[Rows(monthly)]
        prev_10ma_monthly    == mma10[Rows(monthly) - 1]
        rule_1_triggered == RLt(current_10ma_monthly, prev_10ma_monthly)
        ma10_weekly      == RollingMean(weekly.Close, 10)[Rows(weekly)]
        ma20_weekly      == RollingMean(weekly.Close, 20)[Rows(weekly)]
        rule_2_triggered == RLt(ma10_weekly, ma20_weekly)
        should_sell      == IndexShouldSell(rule_1_triggered, rule_2_triggered)
        change_pct ==
            RMul(RDiv(RSub(price, record.purchase_price), record.purchase_price), R(100))
        profit_amount ==
            IF record.quantity # PyNone
            THEN Round(RMul(RSub(price, record.purchase_price), record.quantity), 2)
            ELSE PyNone
        base == [purchase_price |-> record.purchase_price,
                 purchase_date  |-> record.purchase_date,
                 holding_days   |-> record.purchase_date,
                 quantity       |-> record.quantity]
        Err(msg)  == [ret |-> "None",
                      data |-> [error |-> msg, current_price |-> price] @@ base]
        Err1(msg) == [ret  |-> "None",
                      data |-> [error |-> msg, current_price |-> price,
                                current_10ma_monthly |-> Round(current_10ma_monthly, 2),
                                prev_10ma_monthly |-> Round(prev_10ma_monthly, 2),
                                rule_1_triggered |-> rule_1_triggered] @@ base]
    IN  IF price = PyNone
        THEN [ret |-> "None", data |-> [error |-> "no current price"] @@ base]
        ELSE IF monthly = PyNone \/ Rows(monthly) < 12 THEN Err("monthly data < 12")
        ELSE IF IsNaN(current_10ma_monthly) \/ IsNaN(prev_10ma_monthly)
             THEN Err("monthly 10MA undefined")
        ELSE IF weekly = PyNone \/ Rows(weekly) < 25 THEN Err1("weekly data < 25")
        ELSE IF IsNaN(ma10_weekly) \/ IsNaN(ma20_weekly) THEN Err1("weekly MA undefined")
        ELSE [ret  |-> PyBool(should_sell),
              data |-> [current_price        |-> price,
                        change_pct           |-> Round(change_pct, 2),
                        profit_amount        |-> profit_amount,
                        current_10ma_monthly |-> Round(current_10ma_monthly, 2),
                        prev_10ma_monthly    |-> Round(prev_10ma_monthly, 2),
                        rule_1_triggered     |-> rule_1_triggered,
                        ma10_weekly          |-> Round(ma10_weekly, 2),
                        ma20_weekly          |-> Round(ma20_weekly, 2),
                        rule_2_triggered     |-> rule_2_triggered,
                        should_sell          |-> should_sell] @@ base]

IndexValidRecordsMutant(all_records_list) == all_records_list

\* valid_records = [r for r in all_records_list if 'error' not in r]
IndexValidRecords(all_records_list) ==
    SelectSeq(all_records_list, LAMBDA r : ~HasError(r))

\* the symbol the two index pipelines are run for
IndexKey == <<MARKET_US, <<"S", "P", "Y">>>>

\* the loop of check_all_watchlist / check_all_index_holdings over the one
\* symbol, given what the signal check returned for it
check_all_index(out) ==
    [signals          |-> IF out.ret = "True" THEN <<out.data>> ELSE <<>>,
     all_records_data |-> DictSet(<<>>, IndexKey, out.data),
     failed_records   |-> IF out.ret = "None" THEN <<IndexKey>> ELSE <<>>]

\* generate_index_buy_report: the lists and counts the prompt is built from
generate_index_buy_report(buy_signals, all_data) ==
    LET valid_records     == IndexValidRecords(DictValues(all_data))
        no_signal_records ==
            SelectSeq(valid_records, LAMBDA r : ~Get(r, "should_buy", FALSE))
    IN  [signals         |-> buy_signals,
         no_signal       |-> no_signal_records,
         total_records   |-> Len(valid_records),
         no_signal_count |-> Len(no_signal_records)]

\* generate_index_sell_report: the lists and counts the prompt is built from
generate_index_sell_report(sell_records, all_data) ==
    LET valid_records == IndexValidRecords(DictValues(all_data))
        hold_records  ==
            SelectSeq(valid_records, LAMBDA r : ~Get(r, "should_sell", FALSE))
    IN  [signals         |-> sell_records,
         no_signal       |-> hold_records,
         total_records   |-> Len(valid_records),
         no_signal_count |-> Len(hold_records)]

\* ---- inputs ----
MonthlyTails ==
    {t \in Tails : /\ t[1].OpenOffset = 1 /\ t[2].OpenOffset = 1
                   /\ t[1].Close \in {20, 21}}
WeeklyTails ==
    {t \in Tails : t[1].OpenOffset = 1 /\ t[2].OpenOffset = 1 /\ t[2].Volume = 1}

MonthlySeries ==
    {MakeDf(n, "up", "rising", t) : n \in {0, 11, 12, 13}, t \in MonthlyTails}
WeeklyIndexSeries ==
    {MakeDf(n, "up", "rising", t) : n \in {0, 24, 25, 26}, t \in WeeklyTails}

\* the holding the sell check is run for; purchase_date is its age in days
IndexHolding ==
    [purchase_price |-> R(90), purchase_date |-> R(30), quantity |-> R(10)]

InitIndex ==
    /\ ixpc = {}
    /\ ix_price \in {PyNone, R(100)}
    /\ monthly_df \in MonthlySeries \cup {FetchError}
    /\ weekly_df \in WeeklyIndexSeries \cup {FetchError}
    /\ buy_result = PyNone
    /\ sell_result = PyNone
    /\ buy_report = PyNone
    /\ sell_report = PyNone
    /\ IdleBuy /\ IdleStop /\ IdleSell /\ IdleBatch /\ IdleLoad
    /\ IdleVolume

CheckIndexBuySignal ==
    /\ "buy" \notin ixpc
    /\ ixpc' = ixpc \cup {"buy"}
    /\ buy_result' = check_index_buy_signal(ix_price, monthly_df, weekly_df)
    /\ UNCHANGED <<ix_price, monthly_df, weekly_df, sell_result,
                   buy_report, sell_report, varsBuy, varsStop, varsSell,
                   varsBatch, varsLoad, varsVolume>>

CheckIndexSellSignal ==
    /\ "sell" \notin ixpc
    /\ ixpc' = ixpc \cup {"sell"}
    /\ sell_result' =
            check_index_sell_signal(IndexHolding, ix_price, monthly_df, weekly_df)
    /\ UNCHANGED <<ix_price, monthly_df, weekly_df, buy_result,
                   buy_report, sell_report, varsBuy, varsStop, varsSell,
                   varsBatch, varsLoad, varsVolume>>

\* check_index_buy.main after the check: the batch's two return values go to
\* the report unless all_records_data is empty
ReportIndexBuy ==
    /\ "buy" \in ixpc /\ "buy report" \notin ixpc
    /\ ixpc' = ixpc \cup {"buy report"}
    /\ LET batch == check_all_index(buy_result)
       IN  buy_report' =
              IF Len(batch.all_records_data) = 0 THEN PyNone
              ELSE generate_index_buy_report(batch.signals, batch.all_records_data)
    /\ UNCHANGED <<ix_price, monthly_df, weekly_df, buy_result, sell_result,
                   sell_report, varsBuy, varsStop, varsSell,
                   varsBatch, varsLoad, varsVolume>>

\* check_index_sell.main after the check
ReportIndexSell ==
    /\ "sell" \in ixpc /\ "sell report" \notin ixpc
    /\ ixpc' = ixpc \cup {"sell report"}
    /\ LET batch == check_all_index(sell_result)
       IN  sell_report' =
              IF Len(batch.all_records_data) = 0 THEN PyNone
              ELSE generate_index_sell_report(batch.signals, batch.all_records_data)
    /\ UNCHANGED <<ix_price, monthly_df, weekly_df, buy_result, sell_result,
                   buy_report, varsBuy, varsStop, varsSell,
                   varsBatch, varsLoad, varsVolume>>

NextIndex ==
    \/ CheckIndexBuySignal
    \/ CheckIndexSellSignal
    \/ ReportIndexBuy
    \/ ReportIndexSell

SpecIndex == InitIndex /\ [][NextIndex]_vars

-----------------------------------------------------------------------------
(* Properties of the index checks *)

\* price and both series are sufficient
IndexSufficient ==
    /\ ix_price # PyNone
    /\ monthly_df # FetchError /\ Rows(monthly_df) >= 12
    /\ weekly_df # FetchError /\ Rows(weekly_df) >= 25

\* 10 * MA10 of the monthly closes at the latest month and at the month before
MonthlySum    == SumRange(monthly_df.Close, Rows(monthly_df) - 9, Rows(monthly_df))
MonthlyPrevSum ==
    SumRange(monthly_df.Close, Rows(monthly_df) - 10, Rows(monthly_df) - 1)
\* 10 * MA10 and 20 * MA20 of the weekly closes at the latest week
WeeklySum10 == SumRange(weekly_df.Close, Rows(weekly_df) - 9, Rows(weekly_df))
WeeklySum20 == SumRange(weekly_df.Close, Rows(weekly_df) - 19, Rows(weekly_df))

RuleA == MonthlySum > MonthlyPrevSum
RuleB == 2 * WeeklySum10 > WeeklySum20

\* C9: with sufficient data should_buy is true iff rule A (monthly MA10 rising,
\* strictly) and rule B (weekly MA10 strictly above MA20) both hold.
C9_BuyIffBothRules ==
    ("buy" \in ixpc /\ IndexSufficient) =>
        /\ buy_result.ret = PyBool(RuleA /\ RuleB)
        /\ buy_result.data.should_buy <=> (RuleA /\ RuleB)

C9_Witness ==
    /\ "buy" \in ixpc /\ IndexSufficient
    /\ RuleA /\ ~RuleB
    /\ buy_result.ret = "False"

\* C10 as stated: on the same series should_sell is the negation of should_buy
\* (sell fires iff rule A is false or rule B is false), equal averages included.
C10_SellIsNegationOfBuy ==
    ({"buy", "sell"} \subseteq ixpc /\ IndexSufficient) =>
        /\ sell_result.ret = PyBool(~(RuleA /\ RuleB))
        /\ sell_result.ret = PyBool(buy_result.ret = "False")

\* C10 amended: should_sell is true iff the monthly MA10 is strictly below the
\* previous month's or the weekly MA10 is strictly below the weekly MA20; it is
\* the negation of should_buy whenever neither pair of averages is equal.
C10_SellIffStrictlyBelow ==
    ({"buy", "sell"} \subseteq ixpc /\ IndexSufficient) =>
        /\ sell_result.ret =
              PyBool(MonthlySum < MonthlyPrevSum \/ 2 * WeeklySum10 < WeeklySum20)
        /\ (MonthlySum # MonthlyPrevSum /\ 2 * WeeklySum10 # WeeklySum20)
              => sell_result.ret = PyBool(buy_result.ret = "False")

\* equal monthly averages with rule B true: neither buy nor sell
C10_Witness ==
    /\ {"buy", "sell"} \subseteq ixpc /\ IndexSufficient
    /\ MonthlySum = MonthlyPrevSum
    /\ RuleB
    /\ buy_result.ret = "False"
    /\ sell_result.ret = "False"

\* the first of the three checks that fails, in the order price, monthly
\* series, weekly series; "none" when the data is sufficient
FirstShortfall ==
    IF ix_price = PyNone THEN "no current price"
    ELSE IF monthly_df = FetchError \/ Rows(monthly_df) < 12 THEN "monthly data < 12"
    ELSE IF weekly_df = FetchError \/ Rows(weekly_df) < 25 THEN "weekly data < 25"
    ELSE "none"

Undetermined(out) ==
    /\ out.ret = "None"
    /\ HasError(out.data)
    /\ out.data.error = FirstShortfall

NotInReport(rep, out) ==
    /\ \A i \in 1..Len(rep.signals) : rep.signals[i] # out.data
    /\ \A i \in 1..Len(rep.no_signal) : rep.no_signal[i] # out.data
    /\ rep.total_records = 0
    /\ rep.no_signal_count = 0

\* C26: with the price unavailable, fewer than 12 monthly bars or fewer than
\* 25 weekly bars, both index checks return None with the error of the first
\* failing check (price, then monthly, then weekly), and the record is in
\* neither list of the report and not in its total.
C26_ShortDataIsUndetermined ==
    FirstShortfall # "none" =>
        /\ "buy" \in ixpc => Undetermined(buy_result)
        /\ "sell" \in ixpc => Undetermined(sell_result)
        /\ "buy report" \in ixpc =>
              buy_report # PyNone /\ NotInReport(buy_report, buy_result)
        /\ "sell report" \in ixpc =>
              sell_report # PyNone /\ NotInReport(sell_report, sell_result)

\* a price, 11 monthly bars and 24 weekly bars: the monthly check fails first
C26_Witness ==
    /\ {"buy report", "sell report"} \subseteq ixpc
    /\ ix_price # PyNone
    /\ monthly_df # FetchError /\ Rows(monthly_df) = 11
    /\ weekly_df # FetchError /\ Rows(weekly_df) = 24
    /\ buy_result.data.error = "monthly data < 12"
    /\ sell_result.data.error = "monthly data < 12"
    /\ buy_report.total_records = 0
    /\ sell_report.no_signal = <<>>

-----------------------------------------------------------------------------
(* The pipelines' main(): buySingleStock, buySingleStockHK, main (buy       *)
(* pipelines) and scanNasdaq100, scan_wood (scan pipelines).  What          *)
(* get_stock_analysis returns for a symbol is the provider's doing: None    *)
(* (or, for main.py's evaluator, an exception), or a verdict set.           *)

BuyPipelines  == {"buySingleStock", "buySingleStockHK", "main"}
ScanPipelines == {"scanNasdaq100", "scan_wood"}

MIN_RULES_PASSED_NASDAQ == 6
MIN_RULES_PASSED_WOOD   == 10

MinRulesPassed(p) ==
    IF p = "scan_wood" THEN MIN_RULES_PASSED_WOOD ELSE MIN_RULES_PASSED_NASDAQ

\* worthy_stocks[:5]
TopN == 5

count_rules_passedMutant(data) ==
    B2N(data.rule_1) + B2N(data.rule_2) + B2N(data.rule_3) + B2N(data.rule_4)
    + B2N(data.rule_5) + B2N(data.rule_6) + B2N(data.rule_7) + B2N(data.rule_8)
    + B2N(data.rule_9)

\* stock_utils.count_rules_passed / the sum of scanNasdaq100.main
count_rules_passed(data) ==
    B2N(data.rule_1) + B2N(data.rule_2) + B2N(data.rule_3) + B2N(data.rule_4)
    + B2N(data.rule_5) + B2N(data.rule_6) + B2N(data.rule_7) + B2N(data.rule_8)
    + B2N(data.rule_9) + B2N(data.rule_10)

InsertDescMutant(sorted, x) ==
    LET before == SelectSeq(sorted, LAMBDA y : y.rules_passed > x.rules_passed)
        after  == SelectSeq(sorted, LAMBDA y : y.rules_passed <= x.rules_passed)
    IN  before \o <<x>> \o after

\* x goes behind every element whose key is at least its own
InsertDesc(sorted, x) ==
    LET before == SelectSeq(sorted, LAMBDA y : y.rules_passed >= x.rules_passed)
        after  == SelectSeq(sorted, LAMBDA y : y.rules_passed < x.rules_passed)
    IN  before \o <<x>> \o after

RECURSIVE SortByRulesPassedMutant(_)
SortByRulesPassedMutant(xs) ==
    IF xs = <<>> THEN <<>>
    ELSE InsertDescMutant(SortByRulesPassedMutant(SubSeq(xs, 1, Len(xs) - 1)),
                          xs[Len(xs)])

\* worthy_stocks.sort(key=lambda x: x[1], reverse=True): a stable sort, the
\* elements taken in list order
RECURSIVE SortByRulesPassed(_)
SortByRulesPassed(xs) ==
    IF xs = <<>> THEN <<>>
    ELSE InsertDesc(SortByRulesPassed(SubSeq(xs, 1, Len(xs) - 1)), xs[Len(xs)])

\* worthy_stocks[:5]
Top5(xs) == SubSeq(xs, 1, IF Len(xs) < TopN THEN Len(xs) ELSE TopN)

TotalWorthyCountMutant(worthy) == Len(Top5(worthy))

\* total_worthy_count = len(worthy_stocks)
TotalWorthyCount(worthy) == Len(worthy)

IsData(outcome) == outcome # PyNone /\ outcome # Raised

AnalyzeBuyMutant(p, sd, failed, key, outcome) ==
    IF IsData(outcome)
    THEN [stocks_data |-> DictSet(sd, key, outcome), failed_stocks |-> failed]
    ELSE [stocks_data |-> sd, failed_stocks |-> failed]

\* the body of the buy pipelines' loop for one symbol
AnalyzeBuy(p, sd, failed, key, outcome) ==
    IF outcome = Raised
    THEN [stocks_data |-> sd, failed_stocks |-> Append(failed, key)]
    ELSE IF p = "main"
    THEN \* stocks_data[symbol] = data comes before the rules are summed
         IF outcome = PyNone
         THEN [stocks_data   |-> DictSet(sd, key, outcome),
               failed_stocks |-> Append(failed, key)]
         ELSE [stocks_data |-> DictSet(sd, key, outcome), failed_stocks |-> failed]
    ELSE IF outcome = PyNone
         THEN [stocks_data |-> sd, failed_stocks |-> Append(failed, key)]
         ELSE [stocks_data |-> DictSet(sd, key, outcome), failed_stocks |-> failed]

\* the body of the scan pipelines' loop for one symbol
AnalyzeScan(p, worthy, failed, symbol, outcome) ==
    IF ~IsData(outcome)
    THEN [worthy_stocks |-> worthy, failed_stocks |-> Append(failed, symbol)]
    ELSE LET rules_passed == count_rules_passed(outcome)
         IN  [worthy_stocks |->
                 IF rules_passed >= MinRulesPassed(p)
                 THEN Append(worthy, [symbol |-> symbol, rules_passed |-> rules_passed,
                                      data |-> outcome])
                 ELSE worthy,
              failed_stocks |-> failed]

\* the overall conclusion generate_ai_report writes for one stock ("buy" for
\* the recommendation to buy, "watch" for keep watching): main.py counts its
\* nine rules against 6, the others count ten against MIN_RULES_PASSED
Conclusion(p, data) ==
    LET rules_passed == IF p = "main" THEN MainRulesPassed(data)
                        ELSE count_rules_passed(data)
    IN  IF rules_passed >= MinRulesPassed(p) THEN "buy" ELSE "watch"

Conclusions(p, datas) == [i \in 1..Len(datas) |-> Conclusion(p, datas[i])]

NothingToReportMutant(sd) == FALSE

\* if not stocks_data
NothingToReport(sd) == Len(sd) = 0

\* ---- inputs ----
MaxSymbols == 6

SymbolNames == <<"NVDA", "AAPL", "TSLA", "GOOGL", "KO", "JD", "BABA", "EDU">>

\* STOCK_CONFIG.items() flattened for buySingleStock: (market, symbol) pairs
WatchItem(p, i) ==
    IF p = "buySingleStock"
    THEN <<IF i = 1 THEN MARKET_US ELSE MARKET_HK, SymbolNames[i]>>
    ELSE SymbolNames[i]

Watch(p, n) == [i \in 1..n |-> WatchItem(p, i)]

\* a verdict set for a symbol with the first k rules passed
Passing(symbol, k) ==
    [symbol |-> symbol,
     rule_1 |-> k >= 1, rule_2 |-> k >= 2, rule_3 |-> k >= 3, rule_4 |-> k >= 4,
     rule_5 |-> k >= 5, rule_6 |-> k >= 6, rule_7 |-> k >= 7, rule_8 |-> k >= 8,
     rule_9 |-> k >= 9, rule_10 |-> k >= 10]

\* a verdict set with rules 2, 3, 5, 6, 8 and 10 passed
Scattered(symbol) ==
    [symbol |-> symbol,
     rule_1 |-> FALSE, rule_2 |-> TRUE, rule_3 |-> TRUE, rule_4 |-> FALSE,
     rule_5 |-> TRUE, rule_6 |-> TRUE, rule_7 |-> FALSE, rule_8 |-> TRUE,
     rule_9 |-> FALSE, rule_10 |-> TRUE]

\* what the pipeline's evaluator can hand back for a symbol
Outcomes(p, symbol) ==
    CASE p = "main"          -> {Raised, Passing(symbol, 3), Passing(symbol, 6)}
      [] p = "scanNasdaq100" -> {PyNone, Passing(symbol, 5), Passing(symbol, 6),
                                 Passing(symbol, 10)}
      [] p = "scan_wood"     -> {PyNone, Passing(symbol, 6), Passing(symbol, 10),
                                 Scattered(symbol)}
      [] OTHER               -> {PyNone, Passing(symbol, 3), Passing(symbol, 6),
                                 Scattered(symbol)}

InitBatch ==
    /\ bpc = "loop"
    /\ pipeline \in BuyPipelines \cup ScanPipelines
    /\ watchlist \in {Watch(pipeline, n) : n \in 0..MaxSymbols}
    /\ bidx = 1
    /\ stocks_data = <<>>
    /\ failed_stocks = <<>>
    /\ worthy_stocks = <<>>
    /\ evals = <<>>
    /\ rendered = PyNone
    /\ emails = <<>>
    /\ IdleBuy /\ IdleStop /\ IdleSell /\ IdleIndex /\ IdleLoad
    /\ IdleVolume

\* the buy pipelines return at once on an empty configuration
ConfigEmpty ==
    /\ bpc = "loop" /\ pipeline \in BuyPipelines
    /\ Len(watchlist) = 0
    /\ bpc' = "empty"
    /\ UNCHANGED <<pipeline, watchlist, bidx, stocks_data, failed_stocks,
                   worthy_stocks, evals, rendered, emails,
                   varsBuy, varsStop, varsSell, varsIndex, varsLoad, varsVolume>>

AnalyzeNextBuy ==
    /\ bpc = "loop" /\ pipeline \in BuyPipelines
    /\ bidx <= Len(watchlist)
    /\ \E outcome \in Outcomes(pipeline, watchlist[bidx]) :
        LET out == AnalyzeBuy(pipeline, stocks_data, failed_stocks,
                              watchlist[bidx], outcome)
        IN  /\ stocks_data' = out.stocks_data
            /\ failed_stocks' = out.failed_stocks
            /\ evals' = Append(evals, [symbol |-> watchlist[bidx], outcome |-> outcome])
    /\ bidx' = bidx + 1
    /\ UNCHANGED <<bpc, pipeline, watchlist, worthy_stocks, rendered, emails,
                   varsBuy, varsStop, varsSell, varsIndex, varsLoad, varsVolume>>

AnalyzeNextScan ==
    /\ bpc = "loop" /\ pipeline \in ScanPipelines
    /\ bidx <= Len(watchlist)
    /\ \E outcome \in Outcomes(pipeline, watchlist[bidx]) :
        LET out == AnalyzeScan(pipeline, worthy_stocks, failed_stocks,
                               watchlist[bidx], outcome)
        IN  /\ worthy_stocks' = out.worthy_stocks
            /\ failed_stocks' = out.failed_stocks
            /\ evals' = Append(evals, [symbol |-> watchlist[bidx], outcome |-> outcome])
    /\ bidx' = bidx + 1
    /\ UNCHANGED <<bpc, pipeline, watchlist, stocks_data, rendered, emails,
                   varsBuy, varsStop, varsSell, varsIndex, varsLoad, varsVolume>>

\* every symbol failed: return before the report
BuyAbort ==
    /\ bpc = "loop" /\ pipeline \in BuyPipelines
    /\ Len(watchlist) > 0 /\ bidx > Len(watchlist)
    /\ NothingToReport(stocks_data)
    /\ bpc' = "aborted"
    /\ UNCHANGED <<pipeline, watchlist, bidx, stocks_data, failed_stocks,
                   worthy_stocks, evals, rendered, emails,
                   varsBuy, varsStop, varsSell, varsIndex, varsLoad, varsVolume>>

\* generate_ai_report(stocks_data), then send_email unless the API call raised
BuyReport ==
    /\ bpc = "loop" /\ pipeline \in BuyPipelines
    /\ Len(watchlist) > 0 /\ bidx > Len(watchlist)
    /\ ~NothingToReport(stocks_data)
    /\ rendered' = [stocks_data |-> DictValues(stocks_data),
                     conclusions |-> Conclusions(pipeline, DictValues(stocks_data))]
    /\ \E api \in {"ok", "raised"} :
        IF api = "ok"
        THEN emails' = Append(emails, "report") /\ bpc' = "reported"
        ELSE emails' = emails /\ bpc' = "error"
    /\ UNCHANGED <<pipeline, watchlist, bidx, stocks_data, failed_stocks,
                   worthy_stocks, evals,
                   varsBuy, varsStop, varsSell, varsIndex, varsLoad, varsVolume>>

\* sort, count, cut to five, and report the five with the total
ScanReport ==
    /\ bpc = "loop" /\ pipeline \in ScanPipelines
    /\ bidx > Len(watchlist)
    /\ LET sorted             == SortByRulesPassed(worthy_stocks)
           total_worthy_count == TotalWorthyCount(sorted)
           top5_stocks        == Top5(sorted)
           top5_stocks_data   == [i \in 1..Len(top5_stocks) |-> top5_stocks[i].data]
       IN  /\ worthy_stocks' = sorted
           /\ IF Len(top5_stocks_data) > 0
              THEN /\ rendered' = [stocks_data        |-> top5_stocks_data,
                                   total_worthy_count |-> total_worthy_count,
                                   conclusions |->
                                       Conclusions(pipeline, top5_stocks_data)]
                   /\ \E api \in {"ok", "raised"} :
                        IF api = "ok"
                        THEN emails' = Append(emails, "report") /\ bpc' = "reported"
                        ELSE emails' = emails /\ bpc' = "error"
              ELSE /\ rendered' = rendered
                   /\ emails' = Append(emails, "summary")
                   /\ bpc' = "summary"
    /\ UNCHANGED <<pipeline, watchlist, bidx, stocks_data, failed_stocks, evals,
                   varsBuy, varsStop, varsSell, varsIndex, varsLoad, varsVolume>>

NextBatch ==
    \/ ConfigEmpty
    \/ AnalyzeNextBuy
    \/ AnalyzeNextScan
    \/ BuyAbort
    \/ BuyReport
    \/ ScanReport

SpecBatch == InitBatch /\ [][NextBatch]_vars

-----------------------------------------------------------------------------
(* Properties of the pipelines *)

\* position of a symbol in the watchlist
WatchPos(symbol) == CHOOSE i \in 1..Len(watchlist) : watchlist[i] = symbol

\* the evaluations that succeeded with at least the pipeline's threshold
Actionable ==
    {i \in 1..Len(evals) :
        /\ IsData(evals[i].outcome)
        /\ count_rules_passed(evals[i].outcome) >= MinRulesPassed(pipeline)}

\* the symbols handed to detailed rendering, in display order
Displayed == [i \in 1..Len(rendered.stocks_data) |-> rendered.stocks_data[i].symbol]

DisplayedSet == {Displayed[i] : i \in 1..Len(Displayed)}

ScanRendered == pipeline \in ScanPipelines /\ rendered # PyNone

\* C11: the results handed to detailed rendering are the first min(5, n) of
\* the n actionable results ordered by descending pass count, ties in scan
\* order: displayed counts dominate undisplayed ones, the display is
\* non-increasing, and equal counts keep their watchlist order.
C11_TopFiveByPassCount ==
    ScanRendered =>
        LET shown == rendered.stocks_data
            n     == Cardinality(Actionable)
        IN  /\ Len(shown) = (IF n < 5 THEN n ELSE 5)
            /\ \A i \in 1..Len(shown) :
                  \E a \in Actionable : evals[a].outcome = shown[i]
            /\ \A i, j \in 1..Len(shown) : i < j =>
                  /\ shown[i] # shown[j]
                  /\ count_rules_passed(shown[i]) >= count_rules_passed(shown[j])
                  /\ count_rules_passed(shown[i]) = count_rules_passed(shown[j])
                        => WatchPos(shown[i].symbol) < WatchPos(shown[j].symbol)
            /\ \A i \in 1..Len(shown) : \A a \in Actionable :
                  evals[a].symbol \notin DisplayedSet =>
                     /\ count_rules_passed(shown[i])
                            >= count_rules_passed(evals[a].outcome)
                     /\ count_rules_passed(shown[i])
                            = count_rules_passed(evals[a].outcome)
                          => WatchPos(shown[i].symbol) < a

\* six actionable results, two pass counts, a tie cut by the truncation
C11_Witness ==
    /\ ScanRendered
    /\ Cardinality(Actionable) = 6
    /\ Len(rendered.stocks_data) = 5
    /\ count_rules_passed(rendered.stocks_data[1]) = 10
    /\ count_rules_passed(rendered.stocks_data[5]) = 6
    /\ count_rules_passed(evals[1].outcome) = 6
    /\ \E a \in Actionable :
          /\ evals[a].symbol \notin DisplayedSet
          /\ count_rules_passed(evals[a].outcome) = 6

\* C12: the total handed to the report is the number of scanned symbols that
\* succeeded with at least the threshold, however many are cut from display.
C12_TotalCountsEveryActionable ==
    ScanRendered => rendered.total_worthy_count = Cardinality(Actionable)

C12_Witness ==
    /\ ScanRendered
    /\ Cardinality(Actionable) = 6
    /\ Len(rendered.stocks_data) = 5
    /\ rendered.total_worthy_count = 6

\* the symbols whose evaluation handed back data / did not
Succeeded == {evals[i].symbol : i \in {j \in 1..Len(evals) : IsData(evals[j].outcome)}}
FailedSet == {failed_stocks[i] : i \in 1..Len(failed_stocks)}
StoredSet == {stocks_data[i].key : i \in 1..Len(stocks_data)}

\* C13: one symbol's failure never aborts the batch: the symbols are
\* evaluated once each in watchlist order, and after the loop every symbol is
\* in exactly one of the successful results and the failed list, failed at
\* most once.
C13_FailureIsIsolated ==
    (bpc # "off") =>
        /\ Len(evals) = bidx - 1
        /\ \A i \in 1..Len(evals) : evals[i].symbol = watchlist[i]
        /\ bpc \notin {"loop", "empty"} => Len(evals) = Len(watchlist)
        /\ bidx > Len(watchlist) =>
              \A i \in 1..Len(watchlist) :
                 LET symbol == watchlist[i]
                     ok     == IF pipeline \in BuyPipelines
                               THEN symbol \in StoredSet
                               ELSE symbol \in Succeeded
                 IN  /\ ok <=> symbol \notin FailedSet
                     /\ ok <=> IsData(evals[i].outcome)
                     /\ Cardinality({j \in 1..Len(failed_stocks) :
                                        failed_stocks[j] = symbol}) <= 1

\* a failure in the middle of the watchlist, the later symbols still evaluated
C13_Witness ==
    /\ bpc \in {"reported", "summary"}
    /\ Len(watchlist) >= 3
    /\ ~IsData(evals[1].outcome)
    /\ ~IsData(evals[2].outcome)
    /\ IsData(evals[3].outcome)
    /\ Len(failed_stocks) = 2

\* C15: in the buy pipelines, when every symbol failed the report is not
\* generated: no renderer call and no email.
C15_TotalFailureAbortsReport ==
    (/\ pipeline \in BuyPipelines
     /\ bidx > Len(watchlist)
     /\ \A i \in 1..Len(evals) : ~IsData(evals[i].outcome)) =>
        /\ rendered = PyNone
        /\ emails = <<>>
        /\ bpc \in {"loop", "empty", "aborted"}

C15_Witness ==
    /\ pipeline \in BuyPipelines
    /\ bpc = "aborted"
    /\ Len(watchlist) >= 2
    /\ Len(failed_stocks) = Len(watchlist)
    /\ rendered = PyNone /\ emails = <<>>

RuleNames ==
    {"rule_1", "rule_2", "rule_3", "rule_4", "rule_5", "rule_6", "rule_7",
     "rule_8", "rule_9", "rule_10"}

\* number of rules rule_1..rule_10 that are true in a verdict set
TrueRules(data) == Cardinality({r \in RuleNames : data[r]})

\* the entries of worthy_stocks recorded for the evaluation at position i
WorthyEntries(i) ==
    {k \in 1..Len(worthy_stocks) : worthy_stocks[k].symbol = evals[i].symbol}

\* C21: the pass count is the number of true rules among rule_1..rule_10 and
\* lies in 0..10; a scanned symbol is actionable iff that number is >= 6
\* (scanNasdaq100) or = 10 (scan_wood), and buySingleStock / buySingleStockHK
\* conclude "buy" for a stock iff that number is >= 6.
C21_PassCountDecidesBuy ==
    /\ pipeline \in ScanPipelines =>
          \A i \in 1..Len(evals) : IsData(evals[i].outcome) =>
             LET cnt == TrueRules(evals[i].outcome)
             IN  /\ cnt \in 0..10
                 /\ WorthyEntries(i) # {}
                       <=> (IF pipeline = "scan_wood" THEN cnt = 10 ELSE cnt >= 6)
                 /\ \A k \in WorthyEntries(i) : worthy_stocks[k].rules_passed = cnt
    /\ (pipeline \in {"buySingleStock", "buySingleStockHK"} /\ rendered # PyNone) =>
          /\ Len(rendered.conclusions) = Len(rendered.stocks_data)
          /\ \A i \in 1..Len(rendered.stocks_data) :
                /\ TrueRules(rendered.stocks_data[i]) \in 0..10
                /\ rendered.conclusions[i] = "buy"
                      <=> TrueRules(rendered.stocks_data[i]) >= 6
    /\ (pipeline \in ScanPipelines /\ rendered # PyNone) =>
          \A i \in 1..Len(rendered.stocks_data) :
             rendered.conclusions[i] = "buy"

\* scan_wood: a symbol with six scattered rules is not actionable, one with all
\* ten is
C21_Witness ==
    /\ pipeline = "scan_wood" /\ bpc = "reported"
    /\ \E i, j \in 1..Len(evals) :
          /\ evals[i].outcome = Scattered(evals[i].symbol)
          /\ WorthyEntries(i) = {}
          /\ IsData(evals[j].outcome) /\ TrueRules(evals[j].outcome) = 10
          /\ WorthyEntries(j) # {}
          /\ worthy_stocks[CHOOSE k \in WorthyEntries(j) : TRUE].rules_passed = 10

-----------------------------------------------------------------------------
(* load_purchase_records / load_index_holdings and the head of the batch    *)
(* functions that consume what they return.  JSON values are tagged         *)
(* records; a Python value read from JSON is the same tagged record.        *)

JNull      == [t |-> "null"]
JBool(b)   == [t |-> "bool", b |-> b]
JNum(n)    == [t |-> "number", n |-> n]
JStr(str)  == [t |-> "string", s |-> str]
JArr(xs)   == [t |-> "array", items |-> xs]
JObj(mem)  == [t |-> "object", members |-> mem]

FileAbsent     == [t |-> "absent"]
FileNotJSON    == [t |-> "not json"]
FileUnreadable == [t |-> "unreadable"]
JsonFile(v)    == [t |-> "json", value |-> v]

EmptyList == JArr(<<>>)

\* load_purchase_records() / load_index_holdings(): the two bodies are the same
load_records(file) ==
    IF file.t = "absent" THEN EmptyList
    ELSE IF file.t = "unreadable" THEN EmptyList   \* except Exception
    ELSE IF file.t = "not json" THEN EmptyList     \* except json.JSONDecodeError
    ELSE LET data == file.value
         IN  IF data.t # "object"
             THEN EmptyList                        \* data.get raises AttributeError
             ELSE IF "records" \in DOMAIN data.members
                  THEN data.members.records        \* data.get('records', [])
                  ELSE EmptyList

\* Python truth value of a value read from JSON
Truthy(v) ==
    CASE v.t = "null"   -> FALSE
      [] v.t = "bool"   -> v.b
      [] v.t = "number" -> v.n # 0
      [] v.t = "string" -> v.s # ""
      [] v.t = "array"  -> Len(v.items) > 0
      [] v.t = "object" -> DOMAIN v.members # {}

\* the head of check_all_stop_loss / check_all_index_holdings: "empty" when
\* not records; len(records) raises TypeError on a number or a bool;
\* otherwise the for loop is entered with the value
BatchHead(recs) ==
    IF ~Truthy(recs) THEN "empty"
    ELSE IF recs.t \in {"number", "bool"} THEN "raised"
    ELSE "loop"

\* ---- inputs ----
MaxArrayLen == 2

PositionObject ==
    JObj([symbol |-> JStr("AAPL"), purchase_price |-> JNum(100),
          purchase_date |-> JStr("2024-01-02")])

ArrayElements ==
    {PositionObject, JObj([purchase_price |-> JNum(100)]), JNull, JNum(1), JStr("AAPL")}

Arrays == UNION {{JArr(xs) : xs \in [1..n -> ArrayElements]} : n \in 0..MaxArrayLen}

RecordsValues ==
    Arrays \cup {JNull, JBool(FALSE), JBool(TRUE), JNum(0), JNum(7), JStr(""),
                 JStr("AAPL"), JObj([symbol |-> JStr("AAPL")]), PositionObject}

StoreFiles ==
    {FileAbsent, FileNotJSON, FileUnreadable}
    \cup {JsonFile(JObj([records |-> v])) : v \in RecordsValues}
    \cup {JsonFile(JObj([holdings |-> v])) : v \in {EmptyList, JArr(<<PositionObject>>)}}
    \cup {JsonFile(v) : v \in {JNull, JNum(7), JStr("AAPL"), JBool(TRUE),
                               JArr(<<PositionObject>>)}}

InitLoad ==
    /\ loadpc = "file"
    /\ loader \in {"load_purchase_records", "load_index_holdings"}
    /\ store_file \in StoreFiles
    /\ loaded = PyNone
    /\ IdleBuy /\ IdleStop /\ IdleSell /\ IdleIndex /\ IdleBatch
    /\ IdleVolume

LoadPurchaseRecords ==
    /\ loadpc = "file" /\ loader = "load_purchase_records"
    /\ loaded' = load_records(store_file)
    /\ loadpc' = "loaded"
    /\ UNCHANGED <<loader, store_file, varsBuy, varsStop, varsSell, varsIndex, varsBatch,
                   varsVolume>>

LoadIndexHoldings ==
    /\ loadpc = "file" /\ loader = "load_index_holdings"
    /\ loaded' = load_records(store_file)
    /\ loadpc' = "loaded"
    /\ UNCHANGED <<loader, store_file, varsBuy, varsStop, varsSell, varsIndex, varsBatch,
                   varsVolume>>

\* the batch function takes what the loader returned
EnterBatch ==
    /\ loadpc = "loaded"
    /\ loadpc' = BatchHead(loaded)
    /\ UNCHANGED <<loader, store_file, loaded,
                   varsBuy, varsStop, varsSell, varsIndex, varsBatch,
                   varsVolume>>

NextLoad == LoadPurchaseRecords \/ LoadIndexHoldings \/ EnterBatch

SpecLoad == InitLoad /\ [][NextLoad]_vars

\* the store is a JSON object whose records member is an array of objects
WellFormedStore(file) ==
    /\ file.t = "json"
    /\ file.value.t = "object"
    /\ "records" \in DOMAIN file.value.members
    /\ file.value.members.records.t = "array"
    /\ \A i \in 1..Len(file.value.members.records.items) :
          file.value.members.records.items[i].t = "object"

\* C17: loading never raises and yields the empty list whenever the store is
\* absent or malformed, so a malformed store never reaches the per-record
\* loop as a non-empty value.
C17_MalformedStoreLoadsEmpty ==
    (loadpc \notin {"off", "file"} /\ ~WellFormedStore(store_file)) =>
        /\ loaded = EmptyList
        /\ loadpc # "loop"

-----------------------------------------------------------------------------
(* analyze_volume_trend on its own: monthly frames of 9 to 11 bars, a base  *)
(* run with a steady trend and volume followed by three free bars           *)

VolumeTrends  == {0 - 1, 0, 1}
BaseVolumes   == {"zero", "constant", "rising"}
VolumeCells   == [dc : {0 - 1, 0, 1}, v : {0, 50}]
VolumeLengths == {9, 10, 11}

BaseVolume(i, bv) ==
    IF bv = "zero" THEN 0 ELSE IF bv = "constant" THEN 7 ELSE i

RECURSIVE FrameClose(_, _, _, _)
FrameClose(i, n, trend, tail) ==
    IF i <= n - 3 THEN 40 + trend * i
    ELSE FrameClose(i - 1, n, trend, tail) + tail[i - (n - 3)].dc

VolumeFrame(n, trend, bv, tail) ==
    [Close  |-> [i \in 1..n |-> FrameClose(i, n, trend, tail)],
     Volume |-> [i \in 1..n |->
                    IF i <= n - 3 THEN BaseVolume(i, bv) ELSE tail[i - (n - 3)].v]]

VolumeFrames ==
    {VolumeFrame(n, trend, bv, tail) :
        n \in VolumeLengths, trend \in VolumeTrends, bv \in BaseVolumes,
        tail \in [1..3 -> VolumeCells]}

InitVolume ==
    /\ volpc = "input"
    /\ volume_df \in VolumeFrames
    /\ volume_analysis = PyNone
    /\ IdleBuy /\ IdleStop /\ IdleSell /\ IdleIndex /\ IdleBatch /\ IdleLoad

AnalyzeVolumeTrend ==
    /\ volpc = "input"
    /\ volume_analysis' = analyze_volume_trend(volume_df)
    /\ volpc' = "done"
    /\ UNCHANGED <<volume_df, varsBuy, varsStop, varsSell, varsIndex, varsBatch,
                   varsLoad>>

NextVolume == AnalyzeVolumeTrend

SpecVolume == InitVolume /\ [][NextVolume]_vars

\* the analysis ran on at least 10 bars
VolumeAnalysed == volpc = "done" /\ Rows(volume_df) >= 10

\* first bar of the 10-bar window
WindowFirst == Rows(volume_df) - 9

\* bars of the window whose close is above the close of the bar before them
\* in the window
UpBars ==
    {r \in (WindowFirst + 1)..Rows(volume_df) :
        volume_df.Close[r] > volume_df.Close[r - 1]}

\* the volume the code reports for up months / for down months
UpTotal   == volume_analysis.total_up_volume.n
DownTotal == volume_analysis.total_down_volume.n

\* C18: positive_signal is true iff both volume totals are strictly positive
\* and the up total is strictly greater than the down total; with either
\* total zero it is false even when the up total exceeds the down total.
C18_PositiveSignalNeedsBothTotals ==
    VolumeAnalysed =>
        /\ UpTotal = SumRange([r \in 1..Rows(volume_df) |->
                                  IF r \in UpBars THEN volume_df.Volume[r] ELSE 0],
                              1, Rows(volume_df))
        /\ volume_analysis.positive_signal
              <=> (UpTotal > 0 /\ DownTotal > 0 /\ UpTotal > DownTotal)

\* up volume present, down total zero: no positive signal
C18_Witness ==
    /\ VolumeAnalysed
    /\ UpTotal > 0 /\ DownTotal = 0
    /\ volume_analysis.positive_signal = FALSE

\* C19: the first bar of the window is in neither population: the bars after
\* it split into up and down, its volume is in neither total, and the two
\* counts add up to at most 9.
C19_FirstBarIsExcluded ==
    VolumeAnalysed =>
        /\ volume_analysis.up_months_count + volume_analysis.down_months_count <= 9
        /\ UpTotal + DownTotal =
              SumRange(volume_df.Volume, WindowFirst + 1, Rows(volume_df))

-----------------------------------------------------------------------------
(* The rule layer of check_buy_rules (lines 219-313) on a DataFrame whose   *)
(* indicator columns are already assigned, some of the values at the        *)
(* evaluation point undefined (NaN), as pandas delivers them when the       *)
(* window holds missing closes.                                             *)

IndicatorNames == {"ma10", "ma20", "ma30", "prev_ma30", "MACD_DIF", "MACD_DEA"}

\* the frame with the named values at the evaluation point undefined
Undefine(d, names) ==
    LET n == Rows(d)
        U(name, x) == IF name \in names THEN NaN ELSE x
    IN  [d EXCEPT !.ma10[n]     = U("ma10", @),
                  !.ma20[n]     = U("ma20", @),
                  !.ma30[n]     = U("ma30", @),
                  !.ma30[n - 1] = U("prev_ma30", @),
                  !.MACD_DIF[n] = U("MACD_DIF", @),
                  !.MACD_DEA[n] = U("MACD_DEA", @)]

RuleTails ==
    {t \in Tails : /\ t[1].OpenOffset = 1 /\ t[2].OpenOffset = 1
                   /\ t[2].Volume = 200
                   /\ <<t[1].Close, t[2].Close>> \in {<<21, 24>>, <<20, 16>>}}

RuleSeries == {MakeDf(MinWeeks + 1, "up", "rising", t) : t \in RuleTails}

InitRules ==
    /\ pc = "columns"
    /\ evaluator = "none"
    /\ fetched \in RuleSeries
    /\ \E names \in SUBSET IndicatorNames : df = Undefine(BuyColumns(fetched), names)
    /\ result = PyNone
    /\ first_run = PyNone
    /\ IdleStop /\ IdleSell /\ IdleIndex /\ IdleBatch /\ IdleLoad /\ IdleVolume

\* lines 219-313: the verdicts read off the columns
EvaluateRules ==
    /\ pc = "columns"
    /\ pc' = "done"
    /\ evaluator' = "rules"
    /\ result' = BuyVerdicts(df)
    /\ UNCHANGED <<fetched, df, first_run, varsStop, varsSell, varsIndex, varsBatch, varsLoad,
                   varsVolume>>

NextRules == EvaluateRules

SpecRules == InitRules /\ [][NextRules]_vars

RulesEvaluated == pc = "done" /\ evaluator = "rules"

\* C20: an undefined MA10, MA20, MA30, previous MA30, DIF or DEA at the
\* evaluation point makes every rule among 1-4 and 9 that reads it false, and
\* the evaluation still returns the ten boolean verdicts.
C20_UndefinedIndicatorFailsRule ==
    RulesEvaluated =>
        LET n == Rows(df)
        IN  /\ (IsNaN(df.ma10[n]) \/ IsNaN(df.ma20[n])) => ~result.rule_1
            /\ IsNaN(df.ma20[n]) => ~result.rule_2
            /\ IsNaN(df.ma30[n]) => ~result.rule_3
            /\ (IsNaN(df.ma30[n]) \/ IsNaN(df.ma30[n - 1])) => ~result.rule_4
            /\ (IsNaN(df.MACD_DIF[n]) \/ IsNaN(df.MACD_DEA[n])) => ~result.rule_9
            /\ \A v \in {result.rule_1, result.rule_2, result.rule_3, result.rule_4,
                         result.rule_5, result.rule_6, result.rule_7, result.rule_8,
                         result.rule_9, result.rule_10} : v \in BOOLEAN

\* only DEA and the previous MA30 undefined on a rising series: rules 4 and 9
\* fail, rules 1-3 still pass
C20_Witness ==
    /\ RulesEvaluated
    /\ fetched.Close[Rows(fetched)] = 24
    /\ IsNaN(df.MACD_DEA[Rows(df)]) /\ ~IsNaN(df.MACD_DIF[Rows(df)])
    /\ IsNaN(df.ma30[Rows(df) - 1]) /\ ~IsNaN(df.ma30[Rows(df)])
    /\ ~IsNaN(df.ma10[Rows(df)]) /\ ~IsNaN(df.ma20[Rows(df)])
    /\ result.rule_1 /\ result.rule_2 /\ result.rule_3
    /\ ~result.rule_4 /\ ~result.rule_9

-----------------------------------------------------------------------------
(* The checklist on series built for rules 5 and 6: flat series (every      *)
(* close at one price) whose trailing six bars are free in direction and    *)
(* volume, and padded series whose last two closes reach zero and below.    *)

WindowBars == [down : BOOLEAN, volume : {0, 2}]

\* n bars closing at c; bar k of the trailing six opens above the close when
\* w[k].down, otherwise at the close (even rows) or below it (odd rows)
FlatDf(n, c, w) ==
    LET k(i) == i - (n - 6)
    IN  [Open   |-> [i \in 1..n |->
                        IF i <= n - 6 THEN c - 1
                        ELSE IF w[k(i)].down THEN c + 1
                        ELSE IF i % 2 = 0 THEN c ELSE c - 1],
         Low    |-> [i \in 1..n |-> c - 2],
         Close  |-> [i \in 1..n |-> c],
         Volume |-> [i \in 1..n |-> IF i <= n - 6 THEN 5 ELSE w[k(i)].volume]]

FlatLengths == {MinWeeks + 1, MinWeeks + 2}
FlatCloses  == {0 - 3, 0, 1, 250}

FlatSeries ==
    {FlatDf(MinWeeks + 1, PadClose, w) : w \in [1..6 -> WindowBars]}
    \cup {FlatDf(n, c, [i \in 1..6 |-> b]) :
             n \in FlatLengths, c \in FlatCloses, b \in WindowBars}

Rule5Closes == {0 - 1, 0, 18, 24, 25}
Rule5Bars   == [Close : Rule5Closes, OpenOffset : {1}, Volume : {50}]

Rule5Series ==
    {MakeDf(n, "up", "rising", t) :
        n \in {MinWeeks, MinWeeks + 1}, t \in Rule5Bars \X Rule5Bars}

InitWindow ==
    /\ pc = "fetched"
    /\ evaluator = "none"
    /\ fetched \in FlatSeries \cup Rule5Series
    /\ df = fetched
    /\ result = PyNone
    /\ first_run = PyNone
    /\ IdleStop /\ IdleSell /\ IdleIndex /\ IdleBatch /\ IdleLoad /\ IdleVolume

NextWindow == CheckBuyRules \/ CheckBuyRulesHK \/ ScanGetStockAnalysis

SpecWindow == InitWindow /\ [][NextWindow]_vars

Verdicts == pc = "done" /\ result.kind = "verdicts"

\* the trailing six bars
Window == (Rows(fetched) - 5)..Rows(fetched)

\* the bars of the window that close below their own open, and their number
DownBars  == {i \in Window : fetched.Close[i] < fetched.Open[i]}
DownCount == Cardinality(DownBars)

\* position of a down bar among the down bars, in chronological order
DownRank(i) == Cardinality({j \in DownBars : j <= i})

\* total volume of the down bars with rank in lo..hi
DownVolumeSum(lo, hi) ==
    SumRange([i \in 1..Rows(fetched) |->
                 IF i \in DownBars /\ DownRank(i) \in lo..hi
                 THEN fetched.Volume[i] ELSE 0],
             Rows(fetched) - 5, Rows(fetched))

WindowMax == MaxRange(fetched.Close, Rows(fetched) - 5, Rows(fetched))
WindowMin == MinRange(fetched.Close, Rows(fetched) - 5, Rows(fetched))

\* C25: rule 5 is true iff the volatility (max - min) / min * 100 of the
\* trailing six closes is defined and strictly below 20; it is undefined, and
\* rule 5 false, whenever the minimum close of the window is <= 0.
C25_Rule5NeedsPositiveMinimum ==
    Verdicts =>
        (result.rule_5 <=>
            (WindowMin > 0 /\ (WindowMax - WindowMin) * 100 < 20 * WindowMin))

\* C29: on a series of at least 31 bars closing at one positive price, rules
\* 1, 2, 3, 4, 7 and 9 are false whatever the opens and volumes are, so at
\* most four rules pass and the conclusion at threshold 6 is never "buy".
C29_FlatSeriesIsNeverBuy ==
    (/\ Verdicts
     /\ Rows(fetched) >= 31
     /\ \A i \in 1..Rows(fetched) : fetched.Close[i] = fetched.Close[1]
     /\ fetched.Close[1] > 0) =>
        /\ ~result.rule_1 /\ ~result.rule_2 /\ ~result.rule_3 /\ ~result.rule_4
        /\ ~result.rule_7 /\ ~result.rule_9
        /\ count_rules_passed(result) <= 4
        /\ Conclusion("buySingleStock", result) = "watch"
        /\ Conclusion("scanNasdaq100", result) = "watch"

\* a flat series on which the other four rules all pass
C29_Witness ==
    /\ Verdicts
    /\ Rows(fetched) >= 31
    /\ \A i \in 1..Rows(fetched) : fetched.Close[i] = PadClose
    /\ result.rule_5 /\ result.rule_6 /\ result.rule_8 /\ result.rule_10
    /\ count_rules_passed(result) = 4

-----------------------------------------------------------------------------
(* The shortest series the evaluator accepts *)

\* C28: on a series of exactly 30 bars the previous bar's MA30 is undefined,
\* so rule_4 is false whatever the prices are; at most nine rules pass and
\* scan_wood, which requires all ten, never finds the symbol actionable.
C28_ThirtyBarsNeverPassRule4 ==
    (Evaluated /\ evaluator \in SharedEvaluators /\ Rows(fetched) = 30) =>
        /\ result.kind = "verdicts"
        /\ IsNaN(df.ma30[29])
        /\ ~result.rule_4
        /\ count_rules_passed(result) <= 9
        /\ AnalyzeScan("scan_wood", <<>>, <<>>, "NVDA", result).worthy_stocks = <<>>

\* thirty bars on which the other nine rules all pass
C28_Witness ==
    /\ Evaluated /\ evaluator = "get_stock_analysis" /\ Rows(fetched) = 30
    /\ result.kind = "verdicts"
    /\ ~result.rule_4
    /\ ~IsNaN(df.ma30[30])
    /\ count_rules_passed(result) = 9

\* ---------------------------------------------------------------------
\* The main() of every pipeline script: control flow around the
\* collaborators (series fetch, price fetch, narrative generation,
\* email delivery), each of which may fail.  The batch variables are
\* reused: watchlist holds the items of the batch (symbols, purchase
\* records, search keywords), evals the outcome drawn for each item,
\* stocks_data the stored entries, rendered the narrative, emails the
\* emails that were delivered.
\* ---------------------------------------------------------------------
MaxItems == 3

BuyMains == {"buySingleStock", "buySingleStockHK", "main", "sellSingleStock"}
ScanMains == {"scanNasdaq100", "scan_wood"}
PositionMains == {"check_stop_loss", "check_index_buy", "check_index_sell"}
NewsMains == {"scan_jensen_huang"}
Mains == BuyMains \cup ScanMains \cup PositionMains \cup NewsMains

\* What one pass of the loop body can do with its item.
ItemOutcomes(s) ==
    CASE s \in {"buySingleStock", "buySingleStockHK"} ->
            {"data", "none", "raised"}
      [] s \in {"main", "sellSingleStock"} -> {"data", "raised"}
      [] s \in ScanMains -> {"worthy", "unworthy", "none", "raised"}
      [] s \in {"check_stop_loss", "check_index_sell"} ->
            {"valid", "error entry", "raised", "key error"}
      [] s = "check_index_buy" -> {"valid", "error entry", "raised"}
      [] OTHER -> {"results", "nothing", "raised"}

\* Outcomes the loop body stores in the result dictionary.
StoredOutcomes == {"data", "valid", "error entry", "results"}

\* A call site of main is inside main's try block; "config" is the code
\* ahead of it, which calls no collaborator.
InsideTryMutant(s, site) == site \in {"setup", "loop", "narrative"}

InsideTry(s, site) == site \in {"setup", "loop", "narrative", "send"}

\* Where an exception raised at a site of main goes.
Caught(s, site) == IF InsideTry(s, site) THEN "handler" ELSE "propagated"

InitMain ==
    /\ bpc = "start"
    /\ pipeline \in Mains
    /\ watchlist \in {[i \in 1..n |-> i] : n \in 0..MaxItems}
    /\ bidx = 1
    /\ stocks_data = <<>>
    /\ failed_stocks = <<>>
    /\ worthy_stocks = <<>>
    /\ evals = <<>>
    /\ rendered = PyNone
    /\ emails = <<>>
    /\ IdleBuy /\ IdleStop /\ IdleSell /\ IdleIndex /\ IdleLoad
    /\ IdleVolume

UnchangedByMain ==
    UNCHANGED <<varsBuy, varsStop, varsSell, varsIndex, varsLoad, varsVolume>>

\* `if not STOCK_SYMBOLS: return`, ahead of the try block.
RunEmptyConfig ==
    /\ bpc = "start"
    /\ pipeline \in BuyMains
    /\ watchlist = <<>>
    /\ bpc' = "returned"
    /\ UNCHANGED <<pipeline, watchlist, bidx, stocks_data, failed_stocks,
                   worthy_stocks, evals, rendered, emails>>
    /\ UnchangedByMain

\* Entering the loop; the news search first opens its search session,
\* which may raise before any keyword was searched.
RunEnterLoop ==
    /\ bpc = "start"
    /\ ~(pipeline \in BuyMains /\ watchlist = <<>>)
    /\ \E setup \in IF pipeline \in NewsMains THEN {"ok", "raised"} ELSE {"ok"} :
          bpc' = IF setup = "ok" THEN "loop" ELSE Caught(pipeline, "setup")
    /\ UNCHANGED <<pipeline, watchlist, bidx, stocks_data, failed_stocks,
                   worthy_stocks, evals, rendered, emails>>
    /\ UnchangedByMain

\* One pass of the loop: the inner try keeps a failing item from ending
\* the batch; reading record['symbol'] sits ahead of the inner try.
RunEvaluate ==
    /\ bpc = "loop"
    /\ bidx <= Len(watchlist)
    /\ \E o \in ItemOutcomes(pipeline) :
          /\ evals' = Append(evals, o)
          /\ stocks_data' = IF o \in StoredOutcomes
                            THEN Append(stocks_data, watchlist[bidx])
                            ELSE stocks_data
          /\ worthy_stocks' = IF o = "worthy"
                              THEN Append(worthy_stocks, watchlist[bidx])
                              ELSE worthy_stocks
          /\ failed_stocks' = IF o \in {"none", "raised"}
                              THEN Append(failed_stocks, watchlist[bidx])
                              ELSE failed_stocks
          /\ bidx' = IF o = "key error" THEN bidx ELSE bidx + 1
          /\ bpc' = IF o = "key error" THEN Caught(pipeline, "loop") ELSE "loop"
    /\ UNCHANGED <<pipeline, watchlist, rendered, emails>>
    /\ UnchangedByMain

LoopDone == bpc = "loop" /\ bidx > Len(watchlist)

\* What main does once the loop is over.
AfterLoop ==
    CASE pipeline \in BuyMains \cup PositionMains ->
            IF stocks_data = <<>> THEN "return" ELSE "narrative"
      [] pipeline \in ScanMains ->
            IF worthy_stocks = <<>> THEN "summary" ELSE "narrative"
      [] OTHER -> IF stocks_data = <<>> THEN "summary" ELSE "narrative"

\* `if not stocks_data: return`.
RunNothingToReport ==
    /\ LoopDone
    /\ AfterLoop = "return"
    /\ bpc' = "returned"
    /\ UNCHANGED <<pipeline, watchlist, bidx, stocks_data, failed_stocks,
                   worthy_stocks, evals, rendered, emails>>
    /\ UnchangedByMain

\* The narrative call and the lines up to send_email: the call may raise
\* or return None; None skips the email in the position monitors and
\* raises at report_content.split in the others.
RunNarrative ==
    /\ LoopDone
    /\ AfterLoop = "narrative"
    /\ \E api \in {"text", "none", "raised"} :
          /\ rendered' = IF api = "text" THEN [kind |-> "text"] ELSE PyNone
          /\ bpc' = CASE api = "text" -> "send"
                      [] api = "none" /\ pipeline \in PositionMains -> "returned"
                      [] OTHER -> Caught(pipeline, "narrative")
    /\ UNCHANGED <<pipeline, watchlist, bidx, stocks_data, failed_stocks,
                   worthy_stocks, evals, emails>>
    /\ UnchangedByMain

\* send_email(subject, report_content).
RunSend ==
    /\ bpc = "send"
    /\ \E smtp \in {"ok", "raised"} :
          /\ emails' = IF smtp = "ok" THEN Append(emails, "report") ELSE emails
          /\ bpc' = IF smtp = "ok" THEN "returned" ELSE Caught(pipeline, "send")
    /\ UNCHANGED <<pipeline, watchlist, bidx, stocks_data, failed_stocks,
                   worthy_stocks, evals, rendered>>
    /\ UnchangedByMain

\* The summary email of a scan that found nothing.
RunSummary ==
    /\ LoopDone
    /\ AfterLoop = "summary"
    /\ \E smtp \in {"ok", "raised"} :
          /\ emails' = IF smtp = "ok" THEN Append(emails, "summary") ELSE emails
          /\ bpc' = IF smtp = "ok" THEN "returned" ELSE Caught(pipeline, "send")
    /\ UNCHANGED <<pipeline, watchlist, bidx, stocks_data, failed_stocks,
                   worthy_stocks, evals, rendered>>
    /\ UnchangedByMain

\* `except Exception` of main: prints; the news pipeline then tries to
\* send an error notification inside a try of its own.
RunHandler ==
    /\ bpc = "handler"
    /\ \E smtp \in IF pipeline \in NewsMains THEN {"ok", "raised"} ELSE {"none"} :
          emails' = IF smtp = "ok" THEN Append(emails, "error") ELSE emails
    /\ bpc' = "returned"
    /\ UNCHANGED <<pipeline, watchlist, bidx, stocks_data, failed_stocks,
                   worthy_stocks, evals, rendered>>
    /\ UnchangedByMain

NextMain ==
    \/ RunEmptyConfig
    \/ RunEnterLoop
    \/ RunEvaluate
    \/ RunNothingToReport
    \/ RunNarrative
    \/ RunSend
    \/ RunSummary
    \/ RunHandler

\* main runs to its end: no step of it waits on anything.
SpecMain == InitMain /\ [][NextMain]_vars /\ WF_vars(NextMain)

MainIsQuiet ==
    /\ bpc # "propagated"
    /\ Len(emails) <= 1
    /\ emails # <<>> =>
          \/ /\ emails[1] \in {"report", "summary"}
             /\ bidx > Len(watchlist)
             /\ Len(evals) = Len(watchlist)
          \/ /\ emails[1] = "error"
             /\ pipeline \in NewsMains

\* C30: every main returns and no exception leaves it, whatever the
\* collaborators do (an item's fetch fails, the narrative call raises or
\* returns nothing, the email send raises); at most one email is
\* delivered per run, and a report or summary email only once every item
\* of the batch was evaluated (the one other email is the news
\* pipeline's error notification, sent from its handler).
C30_MainReturnsQuietly == [](MainIsQuiet) /\ <>(bpc = "returned")

\* The email send raised after the narrative was generated for a fully
\* evaluated batch; the handler caught it and main returned (the news
\* pipeline's notification was then delivered).
C30_Witness ==
    /\ bpc = "returned"
    /\ rendered = [kind |-> "text"]
    /\ Len(evals) = MaxItems
    /\ \/ pipeline = "check_stop_loss" /\ emails = <<>>
       \/ pipeline = "scan_jensen_huang" /\ emails = <<"error">>

====
